---- MODULE Spec2Model ----
(***************************************************************************)
(* Verification model of the oc-mirror v2 core: the batch worker, the      *)
(* mirror / delete executors and the mirror-aware HTTP transport.          *)
(*                                                                         *)
(* One variable group per subsystem; each specification drives one group   *)
(* and leaves the others at their constructed value.                       *)
(***************************************************************************)
EXTENDS Integers, Sequences, FiniteSets, TLC

VARIABLES
    \* ---- batch.Batch and one call of Batch.Worker ----
    collectorSchema,   \* argument of Worker: [AllImages]
    opts,              \* argument of Worker: [Mode, Function]
    wpc,               \* position of Worker: "idle", "loop", "returned"
    widx,              \* index (1-based) of the image the range loop is at
    CopiedImages,      \* Batch.CopiedImages
    errArray,          \* local errArray of Worker
    Progress,          \* Batch.Progress counters
    runLog,            \* calls received by Mirror.Run, in order: [image, mode, result]
    errorLog,          \* what saveErrors was last asked to write, and whether it could
    wret,              \* value returned by Worker: [copied, err, image]
    \* ---- cli.ExecutorSchema: one mirror run and the embedded registry ----
    xcfg,              \* [Mode, MaxNestedPaths, Graph] of Opts and Config
    xpc,               \* position of Run / RunMirrorToDisk / RunDiskToMirror
    xlog,              \* stages called so far, in order: [stage, result]
    allImages,         \* local allImages of CollectAll and the Run functions
    xret,              \* value returned by Run
    reg,               \* goroutine startLocalRegistry
    handler,           \* goroutine panicOnRegistryError
    closeCount,        \* calls of registryLogFile.Close (closeAll)
    crashed,           \* the process ended by a panic
    \* ---- delete.DeleteImages and the files one delete run works on ----
    dopts,             \* Opts.Global of the delete command, and the RunDelete built
    deleteYaml,        \* the delete YAML file: [state, Items], state "missing", "malformed" or "ok"
    deleteList,        \* the DeleteImageList returned by ReadDeleteMetaData
    removeCalls,       \* paths handed to os.RemoveAll
    removedFiles,      \* paths os.RemoveAll removed
    writtenFiles,      \* files written under the working dir: [name, content]
    warned,            \* the batch error DeleteRegistryImages only logged
    \* ---- transport.mirroredTransport and one call of RoundTrip ----
    mirrors,           \* mirroredTransport.mirrors: [OriginUrl, MirrorEndpoints]
    origURL,           \* the URL of the request when RoundTrip was called
    inURL,             \* in.URL, the URL the request holds now
    tpc,               \* position of RoundTrip
    mi,                \* index of the mirror the outer range loop is at
    ei,                \* index of the endpoint the inner range loop is at
    sent,              \* requests the inner transport received: [url, ok]
    tout,              \* what RoundTrip returned: [resp, err]
    \* ---- cli.NewMirrorCmd: one invocation of the mirror command ----
    cli,               \* arguments and flags: [Dest, From, ConfigPath, SinceString]
    cpc,               \* position of the Run closure
    cmode,             \* Opts.Mode as Complete sets it
    cfx,               \* what the command did to the machine so far, in order
    cexit,             \* exit code of the process: "none", "0", "1"
    verr,              \* the error Validate returned
    \* ---- archive.MirrorUnArchiver: one extraction ----
    unarch,            \* [workingDir, cacheDir, chunks]: the roots and the archive
    archiveFile,       \* number of the chunk that is open, 0 when none is
    upc,               \* position of the extraction
    uei,               \* index of the next entry of the open chunk
    files,             \* regular files on the disk: set of [path, content]
    dirs,              \* directories made by the extraction
    written,           \* paths the extraction opened for writing
    uret,              \* what the extraction returned
    \* ---- archive.ImageBlobGatherer: one GatherBlobs call ----
    gstore,            \* the image source: digest -> manifest
    gref,              \* digest of the top manifest of the image asked for
    gpc,               \* position of the call
    gopts,             \* the fields of o.opts that GatherBlobs sets
    gout,              \* what GatherBlobs returned: [blobs, err]
    \* ---- mirror.getRelatedImages: one call on an unpacked catalog ----
    fbc,               \* the declarative config: [Channels, Bundles]
    packages,          \* the IncludePackage entries of the operator
    ripc,              \* position of the call
    riout,             \* what getRelatedImages returned: [images, err]
    \* ---- mirror.findFBCConfig: one extraction of a catalog image ----
    catalog,           \* the image: [layers, cfgDirName]
    ftree,             \* what is under catalogContentsPath: [dirs, files]
    fpc,               \* position of findFBCConfig
    fli,               \* index of the next layer
    fret,              \* the error findFBCConfig returned
    \* ---- signatureconfig.addMandatoryRegistries: the registries.d step ----
    rin,               \* [registries, Definition]: the URLs and which addRegistry is built
    regdir,            \* files of the working registries.d: set of [name, docker]
    rpc,               \* position of the step
    rret,              \* the error the step returned
    \* ---- cli.NewDeleteCommand: the Run function of the delete command ----
    dcli,              \* o.Opts.Global: the flags of the delete command
    dfiles,            \* the disk: [yamlExists, configKind]
    dcpc,              \* position in the Run function
    dcerr,             \* the error that was logged before os.Exit(1)
    dconfig,           \* o.Config was set from the delete configuration
    dcoll,             \* images were collected by RunDelete
    dwrote,            \* WriteDeleteMetaData wrote the delete files
    \* ---- cli.ExecutorSchema.RunPrepare ----
    ppc,               \* position in RunPrepare
    pimgs,             \* allRelatedImages: the destinations the collector gave
    pchecks,           \* the calls of Mirror.Check so far: [Destination, exists, err]
    pmissing,          \* atLeastOneMissing
    preport,           \* what was written to cached-images.txt
    pret,              \* what RunPrepare returned
    \* ---- cli.ExecutorSchema.RunDelete: the collection of the generate branch ----
    gdfolders,         \* releaseFolder as IdentifyReleases returned it
    gdcollected,       \* what CollectReleaseImages returned for each folder so far
    gdother,           \* [oi, ai]: what the operator and additional collectors returned
    gdall,             \* the local variable allImages
    gdpc,              \* position in RunDelete
    gdpassed,          \* the argument of WriteDeleteMetaData, a sequence of one list
    \* ---- Batch.Worker: the calls of Mirror.Run as they start and return ----
    cwpc,              \* position of Worker: in the loop, inside Mirror.Run, returned
    cwidx,             \* index of the range loop
    inflight,          \* Origins of the images whose Mirror.Run has not returned
    events,            \* calls and returns of Mirror.Run in the order they happen
    \* ---- release.LocalStorageCollector.ReleaseImageCollector, run after run ----
    rldisk,            \* release-images/<payload> on disk: "absent", "partial" or "image"
    rlrun,             \* number of the MirrorToDisk run
    rlidx,             \* index of the loop over the releases
    rlpc,              \* position: in the loop or returned
    rllog,             \* one entry for each turn of the loop: [run, payload, pulled, result]
    rlret,             \* what the collector returned
    \* ---- operator.LocalStorageCollector.OperatorImageCollector ----
    ocfg,              \* [Operators, Mode]: o.Config.Mirror.Operators and the mode
    oidx,              \* index of the loop over the operators
    orelated,          \* the map relatedImages, as a set of [key, Image]
    oselected,         \* what each catalog gave so far: a sequence of sets of [key, Image]
    opc,               \* position in the collector
    oret               \* [images, err]: what the collector returned

wvars == <<collectorSchema, opts, wpc, widx, CopiedImages, errArray, Progress,
           runLog, errorLog, wret>>

xvars == <<xcfg, xpc, xlog, allImages, xret, reg, handler, closeCount, crashed>>

dvars == <<dopts, deleteYaml, deleteList, removeCalls, removedFiles, writtenFiles,
           warned>>

tvars == <<mirrors, origURL, inURL, tpc, mi, ei, sent, tout>>

cvars == <<cli, cpc, cmode, cfx, cexit, verr>>

uvars == <<unarch, archiveFile, upc, uei, files, dirs, written, uret>>

gvars == <<gstore, gref, gpc, gopts, gout>>

svars == <<fbc, packages, ripc, riout>>

fvars == <<catalog, ftree, fpc, fli, fret>>

rvars == <<rin, regdir, rpc, rret>>

kvars == <<dcli, dfiles, dcpc, dcerr, dconfig, dcoll, dwrote>>

pvars == <<ppc, pimgs, pchecks, pmissing, preport, pret>>

qvars == <<gdfolders, gdcollected, gdother, gdall, gdpc, gdpassed>>

evars == <<cwpc, cwidx, inflight, events>>

lvars == <<rldisk, rlrun, rlidx, rlpc, rllog, rlret>>

hvars == <<ocfg, oidx, orelated, oselected, opc, oret>>

vars == <<wvars, xvars, dvars, tvars, cvars, uvars, gvars, svars, fvars, rvars, kvars, pvars, qvars, evars, lvars, hvars>>

-----------------------------------------------------------------------------
(* Bounds of the model *)

MaxImages == 3

MaxCollected == 1

MaxItems == 2

MaxFolders == 2

MaxMirrors == 1

MaxEndpoints == 2

-----------------------------------------------------------------------------
(* v2alpha1 image types and mirror modes *)

TypeCincinnatiGraph == "cincinnatiGraph"
TypeOCPRelease == "ocpRelease"
TypeOCPReleaseContent == "ocpReleaseContent"
TypeOperatorCatalog == "operatorCatalog"
TypeOperatorBundle == "operatorBundle"
TypeOperatorRelatedImage == "operatorRelatedImage"
TypeGeneric == "generic"

ImageTypes == {TypeCincinnatiGraph, TypeOCPRelease, TypeOCPReleaseContent,
               TypeOperatorCatalog, TypeOperatorBundle, TypeOperatorRelatedImage,
               TypeGeneric}

MirrorToDisk == "mirrorToDisk"
DiskToMirror == "diskToMirror"
MirrorToMirror == "mirrorToMirror"
CopyMode == "copy"
DeleteMode == "delete"

\* Results of Mirror.Run: nil, or an error of some kind (a cancelled context
\* makes the copy primitive return a cancellation error).
RunOk == "nil"
RunErrors == {"network error", "context canceled"}
RunResults == {RunOk} \cup RunErrors

NoImage == [Origin |-> 0, Destination |-> "", Type |-> ""]

-----------------------------------------------------------------------------
(* batch.New: the Batch as constructed *)

NewCopiedImages ==
    [AllImages |-> <<>>, TotalReleaseImages |-> 0, TotalOperatorImages |-> 0,
     TotalAdditionalImages |-> 0]

NewProgress ==
    [countTotal |-> 0, countErrorTotal |-> 0,
     countReleaseImages |-> 0, countReleaseImagesErrorTotal |-> 0,
     countOperatorsImages |-> 0, countOperatorsImagesErrorTotal |-> 0,
     countAdditionalImages |-> 0, countAdditionalImagesErrorTotal |-> 0]

NoReturn == [copied |-> NewCopiedImages, err |-> "none", image |-> NoImage]

NoErrorLog == [written |-> FALSE, entries |-> <<>>]

BatchNew ==
    /\ CopiedImages = NewCopiedImages
    /\ Progress = NewProgress
    /\ wpc = "idle"
    /\ widx = 0
    /\ errArray = <<>>
    /\ runLog = <<>>
    /\ errorLog = NoErrorLog
    /\ wret = NoReturn

-----------------------------------------------------------------------------
(* Batch.Worker *)

\* Mutant of IsSynthetic: the graph image is copied in every mode
IsSyntheticNever(img, o) == FALSE

\* worker.go:51 - the graph image is synthetic in the disk-producing modes
IsSynthetic(img, o) ==
    /\ img.Type = TypeCincinnatiGraph
    /\ (o.Mode = MirrorToDisk \/ o.Mode = MirrorToMirror)

\* Mutants of IsFailSafe: no error is fatal / every error is fatal
IsFailSafeAlways(img) == TRUE

IsFailSafeNever(img) == FALSE

\* worker.go:70 - an error on anything other than a release image is fail-safe
IsFailSafe(img) ==
    img.Type # TypeOCPRelease /\ img.Type # TypeOCPReleaseContent

\* worker.go:61-69 - a successful copy is appended and counted by type
CountCopied(ci, img) ==
    LET app == [ci EXCEPT !.AllImages = Append(@, img)] IN
    IF img.Type \in {TypeCincinnatiGraph, TypeOCPRelease, TypeOCPReleaseContent}
    THEN [app EXCEPT !.TotalReleaseImages = @ + 1]
    ELSE IF img.Type = TypeGeneric
    THEN [app EXCEPT !.TotalAdditionalImages = @ + 1]
    ELSE IF img.Type \in {TypeOperatorBundle, TypeOperatorCatalog, TypeOperatorRelatedImage}
    THEN [app EXCEPT !.TotalOperatorImages = @ + 1]
    ELSE app

\* worker.go:52-53 - a synthetic graph image is tallied without a copy
CountSynthetic(ci, img) ==
    [ci EXCEPT !.TotalReleaseImages = @ + 1, !.AllImages = Append(@, img)]

\* worker.go:142-165 - the counters of logProgress (the log lines carry no state)
logProgress(p, img, err) ==
    LET isRel == img.Type \in {TypeOCPRelease, TypeOCPReleaseContent, TypeCincinnatiGraph}
        isOp  == img.Type \in {TypeOperatorCatalog, TypeOperatorBundle, TypeOperatorRelatedImage}
        isGen == img.Type = TypeGeneric
        p1 == [p EXCEPT
                 !.countReleaseImages = IF isRel THEN @ + 1 ELSE @,
                 !.countOperatorsImages = IF isOp THEN @ + 1 ELSE @,
                 !.countAdditionalImages = IF isGen THEN @ + 1 ELSE @,
                 !.countTotal = @ + 1]
    IN  IF err # RunOk /\ img.Type \in {TypeOCPRelease, TypeOCPReleaseContent}
        THEN p1
        ELSE IF err # RunOk
        THEN [p1 EXCEPT
                 !.countErrorTotal = @ + 1,
                 !.countReleaseImagesErrorTotal = IF isRel THEN @ + 1 ELSE @,
                 !.countOperatorsImagesErrorTotal = IF isOp THEN @ + 1 ELSE @,
                 !.countAdditionalImagesErrorTotal = IF isGen THEN @ + 1 ELSE @]
        ELSE p1

\* Mutant of BatchEndError: a single recorded error goes unreported
BatchEndErrorOffByOne(errs) ==
    IF Len(errs) > 1 THEN "SafeError" ELSE "nil"

\* worker.go:121-139 - the error Worker returns once the range loop is over
BatchEndError(errs) ==
    IF Len(errs) > 0 THEN "SafeError" ELSE "nil"

\* worker.go:33-47 - entry of Worker with its two arguments
WorkerEntry(schema, o) ==
    /\ collectorSchema' = schema
    /\ opts' = o
    /\ wpc' = "loop"
    /\ widx' = 1
    /\ errArray' = <<>>
    /\ wret' = NoReturn

\* worker.go:49-87 - one iteration of the range loop over AllImages
WorkerLoop ==
    /\ wpc = "loop"
    /\ widx <= Len(collectorSchema.AllImages)
    /\ LET img == collectorSchema.AllImages[widx] IN
       IF IsSynthetic(img, opts)
       THEN /\ CopiedImages' = CountSynthetic(CopiedImages, img)
            /\ Progress' = logProgress(Progress, img, RunOk)
            /\ widx' = widx + 1
            /\ UNCHANGED <<collectorSchema, opts, wpc, errArray, runLog, errorLog, wret>>
       ELSE \E err \in RunResults :
            /\ runLog' = Append(runLog, [image |-> img, mode |-> opts.Function, result |-> err])
            /\ \/ /\ err = RunOk
                  /\ CopiedImages' = CountCopied(CopiedImages, img)
                  /\ Progress' = logProgress(Progress, img, err)
                  /\ widx' = widx + 1
                  /\ UNCHANGED <<wpc, errArray, errorLog, wret>>
               \/ /\ err # RunOk
                  /\ IsFailSafe(img)
                  /\ errArray' = Append(errArray, [image |-> img, err |-> err])
                  /\ Progress' = logProgress(Progress, img, err)
                  /\ widx' = widx + 1
                  /\ UNCHANGED <<wpc, CopiedImages, errorLog, wret>>
               \/ /\ err # RunOk
                  /\ ~IsFailSafe(img)
                  /\ errArray' = Append(errArray, [image |-> img, err |-> err])
                  /\ \E saveOk \in BOOLEAN :
                        errorLog' = [written |-> saveOk, entries |-> errArray']
                  /\ wret' = [copied |-> CopiedImages, err |-> "UnsafeError", image |-> img]
                  /\ wpc' = "returned"
                  /\ UNCHANGED <<widx, CopiedImages, Progress>>
            /\ UNCHANGED <<collectorSchema, opts>>

\* worker.go:89-140 - after the loop: results, error file, returned value
WorkerEnd ==
    /\ wpc = "loop"
    /\ widx > Len(collectorSchema.AllImages)
    /\ IF Len(errArray) > 0
       THEN \E saveOk \in BOOLEAN :
               errorLog' = [written |-> saveOk, entries |-> errArray]
       ELSE UNCHANGED errorLog
    /\ wret' = [copied |-> CopiedImages, err |-> BatchEndError(errArray), image |-> NoImage]
    /\ wpc' = "returned"
    /\ UNCHANGED <<collectorSchema, opts, widx, CopiedImages, errArray, Progress, runLog>>


-----------------------------------------------------------------------------
(* cli.ExecutorSchema: Run, RunMirrorToDisk, RunDiskToMirror, CollectAll and *)
(* the two goroutines around the embedded registry                          *)

\* The executor as left by Validate, Complete and setupLocalStorage: the
\* registry is created but not started, panicOnRegistryError waits on errchan
ExecutorNew ==
    /\ xpc = "start"
    /\ xlog = <<>>
    /\ allImages = <<>>
    /\ xret = "none"
    /\ reg = "created"
    /\ handler = "waiting"
    /\ closeCount = 0
    /\ crashed = FALSE

ExecutorIdle ==
    /\ ExecutorNew
    /\ xcfg = [Mode |-> MirrorToDisk, MaxNestedPaths |-> FALSE, Graph |-> FALSE]

Stage(name, result) == [stage |-> name, result |-> result]

\* executor.go:385-401 with the early return of a Run function: Run hands the
\* error on after closeAll
ReturnFromRun(err) ==
    /\ xret' = err
    /\ xpc' = "done"
    /\ closeCount' = closeCount + 1

\* executor.go:733-736 (and 743-746, 753-756): CollectAll closes the log file
\* itself before Run does it again
ReturnFromCollectAll(err) ==
    /\ xret' = err
    /\ xpc' = "done"
    /\ closeCount' = closeCount + 2

\* Mutant of StopsRun: only a fatal error of the batch ends the run
StopsRunOnUnsafeOnly(err) == err = "UnsafeError"

\* executor.go:608, 664 - `if err != nil { return err }` after Batch.Worker
StopsRun(err) == err # "nil"

\* Lists a collector may return: MaxCollected images at most, of its own types
Collected(types, first) ==
    UNION {{[i \in 1..n |-> [Origin |-> first + i, Destination |-> "docker://dst",
                             Type |-> t[i]]] : t \in [1..n -> types]}
           : n \in 0..MaxCollected}

\* executor.go:387-392, 597, 638-646 - Run dispatches on the mode;
\* RunMirrorToDisk starts the registry goroutine at once, RunDiskToMirror
\* extracts the archive first
RunStart ==
    /\ xpc = "start"
    /\ ~crashed
    /\ IF xcfg.Mode = MirrorToDisk
       THEN /\ reg' = "spawned"
            /\ xpc' = "collectRelease"
            /\ UNCHANGED <<xlog, xret, closeCount>>
       ELSE \E err \in {"nil", "unarchive error"} :
            /\ xlog' = Append(xlog, Stage("Unarchive", err))
            /\ IF err = "nil"
               THEN /\ reg' = "spawned"
                    /\ xpc' = "collectRelease"
                    /\ UNCHANGED <<xret, closeCount>>
               ELSE /\ ReturnFromRun(err)
                    /\ UNCHANGED reg
    /\ UNCHANGED <<xcfg, allImages, handler, crashed>>

\* executor.go:501 - ListenAndServe binds the port and serves, or fails
RegistryListen ==
    /\ reg = "spawned"
    /\ ~crashed
    /\ reg' \in {"serving", "failed"}
    /\ UNCHANGED <<xcfg, xpc, xlog, allImages, xret, handler, closeCount, crashed>>

\* executor.go:501 - ListenAndServe returns with an error while serving
RegistryFail ==
    /\ reg = "serving"
    /\ ~crashed
    /\ reg' = "failed"
    /\ UNCHANGED <<xcfg, xpc, xlog, allImages, xret, handler, closeCount, crashed>>

\* executor.go:502 and 507-510 - the registry goroutine hands its error to
\* panicOnRegistryError over the unbuffered errchan; it is not a
\* NormalStorageInterruptError, so the receiver panics
RegistrySendError ==
    /\ reg = "failed"
    /\ handler = "waiting"
    /\ ~crashed
    /\ reg' = "exited"
    /\ handler' = "panicked"
    /\ crashed' = TRUE
    /\ UNCHANGED <<xcfg, xpc, xlog, allImages, xret, closeCount>>

\* executor.go:501 - ListenAndServe returns nil: its result is an error value
\* and panicOnRegistryError tests it against nil (executor.go:508)
RegistryReturnNil ==
    /\ reg = "serving"
    /\ ~crashed
    /\ reg' = "returned"
    /\ UNCHANGED <<xcfg, xpc, xlog, allImages, xret, handler, closeCount, crashed>>

\* executor.go:502 and 507-511 - the registry goroutine hands the nil to
\* panicOnRegistryError, which was the only receiver of errchan and returns
\* without a panic: nothing reads errchan afterwards
RegistrySendNil ==
    /\ reg = "returned"
    /\ handler = "waiting"
    /\ ~crashed
    /\ reg' = "exited"
    /\ handler' = "exited"
    /\ UNCHANGED <<xcfg, xpc, xlog, allImages, xret, closeCount, crashed>>

\* executor.go:732-739 - CollectAll: releases
CollectRelease ==
    /\ xpc = "collectRelease"
    /\ ~crashed
    /\ \/ /\ xlog' = Append(xlog, Stage("ReleaseImageCollector", "release collector error"))
          /\ ReturnFromCollectAll("release collector error")
          /\ UNCHANGED allImages
       \/ \E imgs \in Collected({TypeOCPRelease, TypeCincinnatiGraph}, 0) :
          /\ xlog' = Append(xlog, Stage("ReleaseImageCollector", "nil"))
          /\ allImages' = allImages \o imgs
          /\ xpc' = "collectOperator"
          /\ UNCHANGED <<xret, closeCount>>
    /\ UNCHANGED <<xcfg, reg, handler, crashed>>

\* executor.go:742-749 - CollectAll: operators
CollectOperator ==
    /\ xpc = "collectOperator"
    /\ ~crashed
    /\ \/ /\ xlog' = Append(xlog, Stage("OperatorImageCollector", "operator collector error"))
          /\ ReturnFromCollectAll("operator collector error")
          /\ UNCHANGED allImages
       \/ \E imgs \in Collected({TypeOperatorBundle}, Len(allImages)) :
          /\ xlog' = Append(xlog, Stage("OperatorImageCollector", "nil"))
          /\ allImages' = allImages \o imgs
          /\ xpc' = "collectAdditional"
          /\ UNCHANGED <<xret, closeCount>>
    /\ UNCHANGED <<xcfg, reg, handler, crashed>>

\* executor.go:752-760 and 655-661 - CollectAll: additional images; back in
\* RunDiskToMirror the destinations are rewritten when MaxNestedPaths > 0
CollectAdditional ==
    /\ xpc = "collectAdditional"
    /\ ~crashed
    /\ \/ /\ xlog' = Append(xlog, Stage("AdditionalImagesCollector", "additional collector error"))
          /\ ReturnFromCollectAll("additional collector error")
          /\ UNCHANGED allImages
       \/ \E imgs \in Collected({TypeGeneric}, Len(allImages)) :
          /\ xlog' = Append(xlog, Stage("AdditionalImagesCollector", "nil"))
          /\ allImages' = allImages \o imgs
          /\ xpc' = IF xcfg.Mode = DiskToMirror /\ xcfg.MaxNestedPaths
                    THEN "nestedPaths" ELSE "worker"
          /\ UNCHANGED <<xret, closeCount>>
    /\ UNCHANGED <<xcfg, reg, handler, crashed>>

\* executor.go:656-661 - withMaxNestedPaths
NestedPaths ==
    /\ xpc = "nestedPaths"
    /\ ~crashed
    /\ \E err \in {"nil", "nested paths error"} :
          /\ xlog' = Append(xlog, Stage("withMaxNestedPaths", err))
          /\ IF err = "nil"
             THEN /\ xpc' = "worker"
                  /\ UNCHANGED <<xret, closeCount>>
             ELSE ReturnFromRun(err)
    /\ UNCHANGED <<xcfg, allImages, reg, handler, crashed>>

\* executor.go:607, 663 - the call of Batch.Worker
RunCallWorker ==
    /\ xpc = "worker"
    /\ ~crashed
    /\ wpc = "idle"
    /\ WorkerEntry([AllImages |-> allImages], [Mode |-> xcfg.Mode, Function |-> CopyMode])
    /\ xlog' = Append(xlog, Stage("Worker", "called"))
    /\ xpc' = "inWorker"
    /\ UNCHANGED <<CopiedImages, Progress, runLog, errorLog>>
    /\ UNCHANGED <<xcfg, allImages, xret, reg, handler, closeCount, crashed>>

\* executor.go:608-615, 664-670 - Batch.Worker has returned
RunWorkerReturned ==
    /\ xpc = "inWorker"
    /\ ~crashed
    /\ wpc = "returned"
    /\ xlog' = Append(xlog, Stage("WorkerReturned", wret.err))
    /\ IF StopsRun(wret.err)
       THEN ReturnFromRun(wret.err)
       ELSE /\ xpc' = IF xcfg.Mode = MirrorToDisk THEN "stopRegistry" ELSE "idms"
            /\ UNCHANGED <<xret, closeCount>>
    /\ UNCHANGED <<xcfg, allImages, reg, handler, crashed>>
    /\ UNCHANGED wvars

\* executor.go:614-615 and 507-510 - the coordinator sends the interrupt on
\* the unbuffered channel; panicOnRegistryError receives it, finds a
\* NormalStorageInterruptError and returns. Nothing reaches the registry.
StopRegistry ==
    /\ xpc = "stopRegistry"
    /\ ~crashed
    /\ handler = "waiting"
    /\ handler' = "exited"
    /\ xlog' = Append(xlog, Stage("StopRegistry", "nil"))
    /\ xpc' = "archive"
    /\ UNCHANGED <<xcfg, allImages, xret, reg, closeCount, crashed>>

\* executor.go:618 - BuildArchive starts walking the cache and the working dir
BuildArchiveBegin ==
    /\ xpc = "archive"
    /\ ~crashed
    /\ xlog' = Append(xlog, Stage("BuildArchive", "called"))
    /\ xpc' = "archiving"
    /\ UNCHANGED <<xcfg, allImages, xret, reg, handler, closeCount, crashed>>

\* executor.go:618-630 - BuildArchive returns
BuildArchiveEnd ==
    /\ xpc = "archiving"
    /\ ~crashed
    /\ \E err \in {"nil", "archive error"} :
          /\ xlog' = Append(xlog, Stage("BuildArchiveReturned", err))
          /\ ReturnFromRun(err)
    /\ UNCHANGED <<xcfg, allImages, reg, handler, crashed>>

\* executor.go:669-673 - IDMS_ITMSGenerator
GenerateIDMS ==
    /\ xpc = "idms"
    /\ ~crashed
    /\ \E err \in {"nil", "idms error"} :
          /\ xlog' = Append(xlog, Stage("IDMS_ITMSGenerator", err))
          /\ IF err = "nil"
             THEN /\ xpc' = "catalogSource"
                  /\ UNCHANGED <<xret, closeCount>>
             ELSE ReturnFromRun(err)
    /\ UNCHANGED <<xcfg, allImages, reg, handler, crashed>>

\* executor.go:676-679 - CatalogSourceGenerator
GenerateCatalogSource ==
    /\ xpc = "catalogSource"
    /\ ~crashed
    /\ \E err \in {"nil", "catalog source error"} :
          /\ xlog' = Append(xlog, Stage("CatalogSourceGenerator", err))
          /\ IF err = "nil" /\ xcfg.Graph
             THEN /\ xpc' = "updateService"
                  /\ UNCHANGED <<xret, closeCount>>
             ELSE ReturnFromRun(err)
    /\ UNCHANGED <<xcfg, allImages, reg, handler, crashed>>

\* executor.go:682-704 - GraphImage, ReleaseImage, UpdateServiceGenerator
GenerateUpdateService ==
    /\ xpc = "updateService"
    /\ ~crashed
    /\ \E err \in {"nil", "update service error"} :
          /\ xlog' = Append(xlog, Stage("UpdateServiceGenerator", err))
          /\ ReturnFromRun(err)
    /\ UNCHANGED <<xcfg, allImages, reg, handler, crashed>>

-----------------------------------------------------------------------------
(* Strings as sequences of tokens, with the functions of package strings the *)
(* delete code and the transport apply to them                               *)

\* strings.Index: the first position at which old occurs in s, 0 when absent
IndexOf(s, old) ==
    LET hits == {i \in 1..(Len(s) - Len(old) + 1) : SubSeq(s, i, i + Len(old) - 1) = old}
    IN  IF hits = {} THEN 0 ELSE CHOOSE i \in hits : \A j \in hits : i <= j

\* strings.Replace(s, old, new, n): the first n non-overlapping occurrences,
\* all of them when n < 0; an empty old matches before every token and at the end
RECURSIVE Replace(_, _, _, _)
Replace(s, old, new, n) ==
    IF n = 0 THEN s
    ELSE IF old = <<>>
    THEN IF s = <<>> THEN new
         ELSE new \o <<Head(s)>> \o Replace(Tail(s), old, new, n - 1)
    ELSE LET i == IndexOf(s, old) IN
         IF i = 0 THEN s
         ELSE SubSeq(s, 1, i - 1) \o new
              \o Replace(SubSeq(s, i + Len(old), Len(s)), old, new, n - 1)

\* strings.Split(s, sep) for a non-empty sep
RECURSIVE Split(_, _)
Split(s, sep) ==
    LET i == IndexOf(s, sep) IN
    IF i = 0 THEN <<s>>
    ELSE <<SubSeq(s, 1, i - 1)>> \o Split(SubSeq(s, i + Len(sep), Len(s)), sep)

-----------------------------------------------------------------------------
(* delete.DeleteImages and cli.ExecutorSchema.RunDelete *)

dockerProtocol == "docker://"
blobsDir == "docker/registry/v2/blobs/sha256"
deleteImagesYaml == "delete/delete-images.yaml"
discYaml == "delete/delete-imageset-config.yaml"
LocalStorageDisk == "working-dir/.oc-mirror/.cache"
LocalStorageFQDN == "localhost:55000"
sha256Prefix == "sha256:"

\* The registry the mirrored images were pushed to, as --destination names it
RemoteRegistry == <<dockerProtocol, "registry.example.com">>

CacheRegistry == <<dockerProtocol, LocalStorageFQDN>>

ImageNames == <<"release", "operator", "additional">>

\* Reference of an image at the remote registry
RemoteRef(name) == RemoteRegistry \o <<"/", name>>

\* Order of the tokens of a reference as Go compares the strings they stand for
TokenOrder ==
    <<"/", "additional", dockerProtocol, LocalStorageFQDN, "operator",
      "registry.example.com", "release">>

TokenRank(t) == CHOOSE i \in 1..Len(TokenOrder) : TokenOrder[i] = t

\* part_005:63-65 - items[i].ImageReference < items[j].ImageReference
RECURSIVE RefLess(_, _)
RefLess(a, b) ==
    IF b = <<>> THEN FALSE
    ELSE IF a = <<>> THEN TRUE
    ELSE IF Head(a) = Head(b) THEN RefLess(Tail(a), Tail(b))
    ELSE TokenRank(Head(a)) < TokenRank(Head(b))

\* part_005:63-65 - sort.SliceStable on ImageReference
RECURSIVE SortByReference(_)
SortByReference(items) ==
    IF items = <<>> THEN <<>>
    ELSE LET n == Len(items)
             x == items[n]
             rest == SortByReference(SubSeq(items, 1, n - 1))
             keep == {i \in 1..Len(rest) : ~RefLess(x.ImageReference, rest[i].ImageReference)}
             k == IF keep = {} THEN 0 ELSE CHOOSE i \in keep : \A j \in keep : j <= i
         IN  SubSeq(rest, 1, k) \o <<x>> \o SubSeq(rest, k + 1, Len(rest))

\* part_005:52-61 - the item written for a collected image
DeleteItemOf(img) ==
    [ImageName |-> img.Origin, ImageReference |-> img.Destination, Type |-> img.Type,
     RelatedBlobs |-> <<>>]

\* part_005:52-72 - the Items of the generated delete YAML
DeleteItems(images) ==
    SortByReference([i \in 1..Len(images) |-> DeleteItemOf(images[i])])

\* part_005:39-44 - file names carry the delete id when there is one
VersionedName(name, id) == [file |-> name, id |-> id]

\* A delete YAML that is absent or cannot be parsed / one holding items
NoYaml(state) == [state |-> state, Items |-> <<>>]

YamlOf(items) == [state |-> "ok", Items |-> items]

\* The delete command after ValidateDelete and CompleteDelete
DeleteNew ==
    /\ deleteList = <<>>
    /\ removeCalls = {}
    /\ removedFiles = {}
    /\ writtenFiles = {}
    /\ warned = "nil"

DeleteIdle ==
    /\ DeleteNew
    /\ dopts = [DeleteGenerate |-> FALSE, ForceCacheDelete |-> FALSE,
                DeleteDestination |-> <<>>, DeleteID |-> "", Definition |-> "first"]
    /\ deleteYaml = NoYaml("missing")

\* Mutant of GenerateBranch: the generate flag is not looked at
GenerateBranchNever(o) == FALSE

\* delete.go:250 - `if o.Opts.Global.DeleteGenerate`
GenerateBranch(o) == o.DeleteGenerate

\* Mutant of CacheDeleteEnabled: the cache is cleaned on every execute run
CacheDeleteEnabledAlways(o) == ~o.DeleteGenerate

\* part_006:353 - `if !o.Opts.Global.DeleteGenerate && o.Opts.Global.ForceCacheDelete`
CacheDeleteEnabled(o) == ~o.DeleteGenerate /\ o.ForceCacheDelete

\* part_006:352, 358 - filepath.Join(blobPath, digest[1][0:2], digest[1])
BlobFile(hex) == <<LocalStorageDisk, blobsDir, SubSeq(hex, 1, 2), hex>>

\* part_006:354-355 - the blobs of all items, in the order the loops visit them
RECURSIVE AllRelatedBlobs(_)
AllRelatedBlobs(items) ==
    IF items = <<>> THEN <<>>
    ELSE Head(items).RelatedBlobs \o AllRelatedBlobs(Tail(items))

\* part_005:115-132 - the images handed to the batch for one item
DeleteEntries(img, o) ==
    LET remote == [Origin |-> img.ImageName, Destination |-> img.ImageReference,
                   Type |-> img.Type]
        cache == [Origin |-> img.ImageName,
                  Destination |-> Replace(img.ImageReference, o.DeleteDestination,
                                          <<dockerProtocol, LocalStorageFQDN>>, -1),
                  Type |-> img.Type]
    IN  IF o.ForceCacheDelete THEN <<remote, cache>> ELSE <<remote>>

\* part_005:111-144 - the collectorSchema built from the delete list
RECURSIVE DeleteSchemaImages(_, _)
DeleteSchemaImages(items, o) ==
    IF items = <<>> THEN <<>>
    ELSE DeleteEntries(Head(items), o) \o DeleteSchemaImages(Tail(items), o)

\* part_005:148-159 - what DeleteRegistryImages returns for the batch's error
DeleteRegistryImagesResult(err) ==
    IF err = "UnsafeError" THEN err ELSE "nil"

\* What CollectReleaseImages may return for release folder f
ReleaseFolderImages(f) ==
    {<<>>, <<[Origin |-> f, Destination |-> RemoteRef("release"), Type |-> TypeOCPRelease]>>}

\* What CollectOperatorImages and CollectAdditionalImages may return
DeleteCollected(name, type) ==
    {<<>>, <<[Origin |-> 0, Destination |-> RemoteRef(name), Type |-> type]>>}

\* delete.go:244-251, 288 and 538-543 - entry of RunDelete: the generate branch
\* (and the whole of the second definition) starts the registry goroutine
RunDeleteStart ==
    /\ xpc = "start"
    /\ ~crashed
    /\ IF dopts.Definition = "second" \/ GenerateBranch(dopts)
       THEN /\ reg' = "spawned"
            /\ xpc' = "collect"
       ELSE /\ xpc' = "read"
            /\ UNCHANGED reg
    /\ UNCHANGED <<xcfg, xlog, allImages, xret, handler, closeCount, crashed>>
    /\ UNCHANGED dvars

\* delete.go:253-280 and 545-572 - IdentifyReleases, then the three
\* collections; every error is logged and the run goes on. Each release
\* folder's result replaces the one before it.
DeleteCollect ==
    /\ xpc = "collect"
    /\ ~crashed
    /\ \E nf \in 0..MaxFolders :
       \E rel \in IF nf = 0 THEN {<<>>} ELSE ReleaseFolderImages(nf) :
       \E oi \in DeleteCollected("operator", TypeOperatorBundle) :
       \E ai \in DeleteCollected("additional", TypeGeneric) :
          allImages' = (rel \o oi) \o ai
    /\ xlog' = Append(xlog, Stage("Collect", "nil"))
    /\ xpc' = IF dopts.Definition = "second" THEN "cacheBlobsCollected" ELSE "write"
    /\ UNCHANGED <<xcfg, xret, reg, handler, closeCount, crashed>>
    /\ UNCHANGED dvars

\* delete.go:282-285 with part_005:34-106 - WriteDeleteMetaData: the delete
\* YAML and the configuration snapshot; a failed write is logged, nil returned
WriteDeleteMetaData ==
    /\ xpc = "write"
    /\ ~crashed
    /\ \E yamlOk \in BOOLEAN, discOk \in BOOLEAN :
          writtenFiles' = writtenFiles
              \cup (IF yamlOk
                    THEN {[name |-> VersionedName(deleteImagesYaml, dopts.DeleteID),
                           content |-> [Kind |-> "DeleteImageList",
                                        Items |-> DeleteItems(allImages)]]}
                    ELSE {})
              \cup (IF discOk
                    THEN {[name |-> VersionedName(discYaml, dopts.DeleteID),
                           content |-> [Kind |-> "DeleteImageSetConfiguration",
                                        Items |-> <<>>]]}
                    ELSE {})
    /\ xlog' = Append(xlog, Stage("WriteDeleteMetaData", "nil"))
    /\ xret' = "nil"
    /\ xpc' = "done"
    /\ UNCHANGED <<xcfg, allImages, reg, handler, closeCount, crashed>>
    /\ UNCHANGED <<dopts, deleteYaml, deleteList, removeCalls, removedFiles, warned>>

\* delete.go:288-291 and 586-590 with part_005:166-190 - ReadDeleteMetaData;
\* the second definition calls it last and drops the list
ReadDeleteMetaData ==
    /\ xpc \in {"read", "verify"}
    /\ ~crashed
    /\ LET err == IF deleteYaml.state = "missing" THEN "read error"
                  ELSE IF deleteYaml.state = "malformed" THEN "unmarshal error"
                  ELSE "nil"
       IN  /\ xlog' = Append(xlog, Stage("ReadDeleteMetaData", err))
           /\ IF err # "nil"
              THEN /\ xret' = err
                   /\ xpc' = "done"
                   /\ UNCHANGED deleteList
              ELSE IF xpc = "read"
              THEN /\ deleteList' = deleteYaml.Items
                   /\ xpc' = "cacheBlobs"
                   /\ UNCHANGED xret
              ELSE /\ xret' = "nil"
                   /\ xpc' = "done"
                   /\ UNCHANGED deleteList
    /\ UNCHANGED <<xcfg, allImages, reg, handler, closeCount, crashed>>
    /\ UNCHANGED <<dopts, deleteYaml, removeCalls, removedFiles, writtenFiles, warned>>

\* delete.go:293-296 with part_006:350-371 - DeleteCacheBlobs. A blob with
\* fewer than two characters after "sha256:" makes digest[1][0:2] panic; a
\* blob without "sha256:" is skipped with a warning; a failed os.RemoveAll is
\* logged.
DeleteCacheBlobs ==
    /\ xpc = "cacheBlobs"
    /\ ~crashed
    /\ LET blobs == AllRelatedBlobs(deleteList)
           digest(k) == Split(blobs[k], <<sha256Prefix>>)
           panics == {k \in 1..Len(blobs) : Len(digest(k)) > 1 /\ Len(digest(k)[2]) < 2}
           upto == IF panics = {} THEN Len(blobs)
                   ELSE (CHOOSE k \in panics : \A j \in panics : k <= j) - 1
           calls == IF CacheDeleteEnabled(dopts)
                    THEN {BlobFile(digest(k)[2]) : k \in {j \in 1..upto : Len(digest(j)) > 1}}
                    ELSE {}
       IN  /\ removeCalls' = removeCalls \cup calls
           /\ \E failed \in {{}} \cup {{f} : f \in calls} :
                 removedFiles' = removedFiles \cup (calls \ failed)
           /\ IF CacheDeleteEnabled(dopts) /\ panics # {}
              THEN /\ crashed' = TRUE
                   /\ xlog' = Append(xlog, Stage("DeleteCacheBlobs", "panic"))
                   /\ UNCHANGED xpc
              ELSE /\ xlog' = Append(xlog, Stage("DeleteCacheBlobs", "nil"))
                   /\ xpc' = "registryImages"
                   /\ UNCHANGED crashed
    /\ UNCHANGED <<xcfg, allImages, xret, reg, handler, closeCount>>
    /\ UNCHANGED <<dopts, deleteYaml, deleteList, writtenFiles, warned>>

\* delete.go:298-301 with part_005:109-152 - DeleteRegistryImages up to the
\* call of Batch.Worker
DeleteRegistryImages ==
    /\ xpc = "registryImages"
    /\ ~crashed
    /\ wpc = "idle"
    /\ xlog' = Append(xlog, Stage("DeleteRegistryImages", "called"))
    /\ IF ~dopts.DeleteGenerate /\ Len(dopts.DeleteDestination) > 0
       THEN /\ WorkerEntry([AllImages |-> DeleteSchemaImages(deleteList, dopts)],
                           [Mode |-> "", Function |-> DeleteMode])
            /\ xpc' = "inDeleteWorker"
            /\ UNCHANGED xret
       ELSE /\ xret' = "nil"
            /\ xpc' = "done"
            /\ UNCHANGED <<collectorSchema, opts, wpc, widx, errArray, wret>>
    /\ UNCHANGED <<CopiedImages, Progress, runLog, errorLog>>
    /\ UNCHANGED <<xcfg, allImages, reg, handler, closeCount, crashed>>
    /\ UNCHANGED dvars

\* part_005:148-160 and delete.go:298-308 - Batch.Worker has returned to
\* DeleteRegistryImages: an UnsafeError is handed on, any other error is
\* logged as a warning
DeleteRegistryImagesReturned ==
    /\ xpc = "inDeleteWorker"
    /\ ~crashed
    /\ wpc = "returned"
    /\ warned' = IF wret.err = "UnsafeError" THEN warned ELSE wret.err
    /\ xret' = DeleteRegistryImagesResult(wret.err)
    /\ xlog' = Append(xlog, Stage("DeleteRegistryImagesReturned", xret'))
    /\ xpc' = "done"
    /\ UNCHANGED <<xcfg, allImages, reg, handler, closeCount, crashed>>
    /\ UNCHANGED <<dopts, deleteYaml, deleteList, removeCalls, removedFiles, writtenFiles>>
    /\ UNCHANGED wvars

\* delete.go:576-579 - second definition: DeleteCacheBlobs on the collected
\* images, before the delete YAML is read
DeleteCacheBlobsCollected ==
    /\ xpc = "cacheBlobsCollected"
    /\ ~crashed
    /\ \E err \in {"nil", "delete cache error"} :
          /\ xlog' = Append(xlog, Stage("DeleteCacheBlobs", err))
          /\ IF err = "nil"
             THEN /\ xpc' = "registryImagesCollected"
                  /\ UNCHANGED xret
             ELSE /\ xret' = err
                  /\ xpc' = "done"
    /\ UNCHANGED <<xcfg, allImages, reg, handler, closeCount, crashed>>
    /\ UNCHANGED dvars

\* delete.go:581-584 - second definition: DeleteRegistryImages on the
\* collected images, before the delete YAML is read
DeleteRegistryImagesCollected ==
    /\ xpc = "registryImagesCollected"
    /\ ~crashed
    /\ \E err \in {"nil", "delete registry error"} :
          /\ xlog' = Append(xlog, Stage("DeleteRegistryImages", err))
          /\ IF err = "nil"
             THEN /\ xpc' = "verify"
                  /\ UNCHANGED xret
             ELSE /\ xret' = err
                  /\ xpc' = "done"
    /\ UNCHANGED <<xcfg, allImages, reg, handler, closeCount, crashed>>
    /\ UNCHANGED dvars

-----------------------------------------------------------------------------
(* transport.mirroredTransport: RoundTrip over the mirrors of a registry *)

SchemeTokens == {"https:", "http:"}

\* Tokens that begin with "/" and so end the authority of a URL
PathTokens == {"/", "/v2", "/ns", "/repo", "/m1", "/m2", "/manifests"}

\* A token url.Parse rejects
BadTokens == {"%zz"}

SchemeOf(t) == IF t = "https:" THEN "https" ELSE "http"

SchemeToken(scheme) == IF scheme = "https" THEN "https:" ELSE "http:"

\* url.Parse reports an error
ParseFails(s) == \E i \in 1..Len(s) : s[i] \in BadTokens

\* url.Parse: scheme, authority up to the first "/", path; a string without
\* a scheme is all path
Parse(s) ==
    IF Len(s) >= 2 /\ s[1] \in SchemeTokens /\ s[2] = "//"
    THEN LET rest == SubSeq(s, 3, Len(s))
             slash == {i \in 1..Len(rest) : rest[i] \in PathTokens}
             fp == IF slash = {} THEN Len(rest) + 1
                   ELSE CHOOSE i \in slash : \A j \in slash : i <= j
         IN  [Scheme |-> SchemeOf(s[1]), Host |-> SubSeq(rest, 1, fp - 1),
              Path |-> SubSeq(rest, fp, Len(rest))]
    ELSE [Scheme |-> "", Host |-> <<>>, Path |-> s]

\* URL.String: "scheme:", "//" and the host, a "/" before a relative path
URLString(u) ==
    (IF u.Scheme # "" THEN <<SchemeToken(u.Scheme)>> ELSE <<>>)
    \o (IF (u.Scheme # "" \/ u.Host # <<>>) /\ (u.Host # <<>> \/ u.Path # <<>>)
        THEN <<"//">> ELSE <<>>)
    \o u.Host
    \o (IF u.Path # <<>> /\ Head(u.Path) \notin PathTokens /\ u.Host # <<>>
        THEN <<"/">> ELSE <<>>)
    \o u.Path

\* strings.Contains
Contains(s, sub) == IndexOf(s, sub) > 0

\* strings.HasPrefix(s, "http")
HasHttpPrefix(s) == s # <<>> /\ Head(s) \in SchemeTokens

\* mirrored-transport.go:65-74 - isApplicableTo (the origin is parsed as it is)
isApplicableTo(m, url) ==
    /\ ~ParseFails(m.OriginUrl)
    /\ \/ Contains(url.Host, Parse(m.OriginUrl).Host)
       \/ Contains(url.Path, Parse(m.OriginUrl).Path)

\* mirrored-transport.go:77-80 - the origin, with "https://" put before a bare one
OriginWithScheme(m) ==
    IF HasHttpPrefix(m.OriginUrl) THEN m.OriginUrl ELSE <<"https:", "//">> \o m.OriginUrl

\* mirrored-transport.go:85-92 - the endpoint, with its scheme for a bare origin
EndpointWithScheme(m, ep) ==
    IF HasHttpPrefix(m.OriginUrl) THEN ep.Endpoint
    ELSE IF ep.Secure THEN <<"https:", "//">> \o ep.Endpoint
    ELSE <<"http:", "//">> \o ep.Endpoint

\* mirrored-transport.go:99-107 - the string the request URL is rewritten to
MirroredString(url, m, ep) ==
    LET mirrorUrl == Parse(OriginWithScheme(m))
        mirrorEndpointUrl == Parse(EndpointWithScheme(m, ep))
        s1 == Replace(URLString(url), mirrorUrl.Host, mirrorEndpointUrl.Host, 1)
        s2 == Replace(s1, mirrorUrl.Path, mirrorEndpointUrl.Path, 1)
        s3 == IF url.Scheme = "https" /\ ~ep.Secure
              THEN Replace(s2, <<"https:">>, <<"http:">>, 1) ELSE s2
    IN  IF url.Scheme = "http" /\ ep.Secure
        THEN Replace(s3, <<"http:">>, <<"https:">>, 1) ELSE s3

\* mirrored-transport.go:76-119 - useMirrorEndpoint fails on a string url.Parse rejects
useMirrorEndpointFails(url, m, ep) ==
    \/ ParseFails(OriginWithScheme(m))
    \/ ParseFails(EndpointWithScheme(m, ep))
    \/ ParseFails(MirroredString(url, m, ep))

\* mirrored-transport.go:108-118 - the URL useMirrorEndpoint leaves in the request
useMirrorEndpoint(url, m, ep) == Parse(MirroredString(url, m, ep))

NoResponse == [resp |-> "none", err |-> "none"]

\* The response of the inner transport to the request for url
ResponseTo(url) == [resp |-> URLString(url), err |-> "nil"]

TransportError == [resp |-> "nil", err |-> "transport error"]

\* mirrored-transport.go:32-38 - NewWithMirrors, and a request not yet sent
TransportNew ==
    /\ tpc = "idle"
    /\ mi = 1
    /\ ei = 1
    /\ sent = <<>>
    /\ tout = NoResponse
    /\ inURL = origURL

TransportIdle ==
    /\ mirrors = <<>>
    /\ origURL = [Scheme |-> "", Host |-> <<>>, Path |-> <<>>]
    /\ TransportNew

\* mirrored-transport.go:40-43 - RoundTrip is called; mirrored-transport.go:42-43,
\* 58-60 - the range loop takes the next mirror and asks whether it applies to
\* the URL the request holds now
RoundTripMirror ==
    /\ tpc \in {"idle", "mirror"}
    /\ mi <= Len(mirrors)
    /\ IF isApplicableTo(mirrors[mi], inURL)
       THEN /\ tpc' = "endpoint"
            /\ ei' = 1
            /\ UNCHANGED mi
       ELSE /\ tpc' = "mirror"
            /\ mi' = mi + 1
            /\ UNCHANGED ei
    /\ UNCHANGED <<mirrors, origURL, inURL, sent, tout>>

\* mirrored-transport.go:46-58 - one endpoint of the mirror: the request is
\* rewritten in place and handed to the inner transport; an error moves on to
\* the next endpoint, a response is returned
RoundTripEndpoint ==
    /\ tpc = "endpoint"
    /\ ei <= Len(mirrors[mi].MirrorEndpoints)
    /\ LET m == mirrors[mi]
           ep == m.MirrorEndpoints[ei]
       IN  IF useMirrorEndpointFails(inURL, m, ep)
           THEN /\ ei' = ei + 1
                /\ UNCHANGED <<inURL, sent, tout, tpc>>
           ELSE /\ inURL' = useMirrorEndpoint(inURL, m, ep)
                /\ \E ok \in BOOLEAN :
                      /\ sent' = Append(sent, [url |-> inURL', ok |-> ok])
                      /\ IF ok
                         THEN /\ tout' = ResponseTo(inURL')
                              /\ tpc' = "done"
                              /\ UNCHANGED ei
                         ELSE /\ ei' = ei + 1
                              /\ UNCHANGED <<tout, tpc>>
    /\ UNCHANGED <<mirrors, origURL, mi>>

\* mirrored-transport.go:46, 58-60 - the endpoints of the mirror are used up
RoundTripEndpointsDone ==
    /\ tpc = "endpoint"
    /\ ei > Len(mirrors[mi].MirrorEndpoints)
    /\ tpc' = "mirror"
    /\ mi' = mi + 1
    /\ UNCHANGED <<mirrors, origURL, inURL, ei, sent, tout>>

\* mirrored-transport.go:62 - no mirror answered: the request goes to the
\* inner transport as it is now
RoundTripDirect ==
    /\ tpc \in {"idle", "mirror"}
    /\ mi > Len(mirrors)
    /\ \E ok \in BOOLEAN :
          /\ sent' = Append(sent, [url |-> inURL, ok |-> ok])
          /\ tout' = IF ok THEN ResponseTo(inURL) ELSE TransportError
    /\ tpc' = "done"
    /\ UNCHANGED <<mirrors, origURL, inURL, mi, ei>>

-----------------------------------------------------------------------------
(* cli.NewMirrorCmd: the Run closure of the mirror command, with Validate,   *)
(* Complete and setupLocalStorage                                            *)

fileProtocol == "file://"

\* time.Parse(time.DateOnly, s) succeeds: yyyy-MM-dd with a month and a day
\* that exist
DateOnlyOk(s) ==
    /\ Len(s) = 5
    /\ s[2] = "-" /\ s[4] = "-"
    /\ s[1] \in {"2023", "2024"}
    /\ s[3] \in {"01", "02", "12"}
    /\ s[5] \in {"01", "28", "31"}
    /\ ~(s[3] = "02" /\ s[5] = "31")

\* Mutant of Validate: only the protocol of the destination is looked at
ValidateDestinationOnly(c) ==
    IF Len(c.ConfigPath) = 0 THEN "config mandatory"
    ELSE IF Contains(c.Dest, <<fileProtocol>>) \/ Contains(c.Dest, <<dockerProtocol>>)
    THEN "nil"
    ELSE "destination protocol"

\* executor.go:251-277 - Validate: the error it returns, "nil" when it accepts
Validate(c) ==
    IF Len(c.ConfigPath) = 0 THEN "config mandatory"
    ELSE IF Contains(c.Dest, <<dockerProtocol>>) /\ c.From = <<>> THEN "from mandatory"
    ELSE IF Contains(c.Dest, <<fileProtocol>>) /\ c.From # <<>> THEN "from not needed"
    ELSE IF Len(c.From) > 0 /\ ~Contains(c.From, <<fileProtocol>>) THEN "from needs file://"
    ELSE IF c.SinceString # <<>> /\ ~DateOnlyOk(c.SinceString) THEN "since format"
    ELSE IF Contains(c.Dest, <<fileProtocol>>) \/ Contains(c.Dest, <<dockerProtocol>>)
    THEN "nil"
    ELSE "destination protocol"

\* executor.go:301-313 - Complete: the mode taken from the destination
ModeOf(c) ==
    IF Contains(c.Dest, <<fileProtocol>>) THEN MirrorToDisk
    ELSE IF Contains(c.Dest, <<dockerProtocol>>) THEN DiskToMirror
    ELSE ""

\* executor.go:286-382 - what Complete does to the machine, in order, with the
\* calls that can make it return an error
CompleteSteps ==
    <<"ReadConfig", "RemoveLogsDir", "MkdirLogsDir", "ProbePort", "MkdirWorkingDir",
      "MkdirCacheDir", "NewArchiver">>

\* executor.go:472-495 - what setupLocalStorage does, in order
SetupSteps == <<"CreateRegistryLogFile", "NewRegistry", "GoPanicOnRegistryError">>

\* Mutant of ExitsOnError: the closure goes on after an error
ExitsOnErrorNever(err) == FALSE

\* executor.go:161-164 - `if err != nil { log.Error(...); os.Exit(1) }`
ExitsOnError(err) == err # "nil"

\* The command as cobra hands it to the Run closure
CmdNew ==
    /\ cpc = "validate"
    /\ cmode = ""
    /\ cfx = <<>>
    /\ cexit = "none"
    /\ verr = "none"

CmdIdle ==
    /\ cli = [Dest |-> <<>>, From |-> <<>>, ConfigPath |-> <<>>, SinceString |-> <<>>]
    /\ CmdNew

\* executor.go:160-164 - the closure calls Validate and exits 1 on its error
CmdValidate ==
    /\ cpc = "validate"
    /\ verr' = Validate(cli)
    /\ IF ExitsOnError(verr')
       THEN /\ cexit' = "1"
            /\ cpc' = "rejected"
       ELSE /\ cpc' = "complete"
            /\ UNCHANGED cexit
    /\ UNCHANGED <<cli, cmode, cfx>>

\* executor.go:165-169 with 280-382 - Complete: it stops at the first call
\* that fails; the mode is set once the configuration is read; the logs
\* directory is removed before it is created again
CmdComplete ==
    /\ cpc = "complete"
    /\ \E n \in 1..(Len(CompleteSteps) + 1) :
          /\ cfx' = cfx \o SubSeq(CompleteSteps, 1, IF n > Len(CompleteSteps)
                                                    THEN Len(CompleteSteps) ELSE n)
          /\ cmode' = IF n = 1 THEN cmode ELSE ModeOf(cli)
          /\ IF n > Len(CompleteSteps)
             THEN /\ cpc' = "setup"
                  /\ UNCHANGED cexit
             ELSE /\ n # 2
                  /\ cexit' = "1"
                  /\ cpc' = "failed"
    /\ UNCHANGED <<cli, verr>>

\* executor.go:170-175 with 472-495 - setupLocalStorage: only NewRegistry
\* makes it return an error
CmdSetupLocalStorage ==
    /\ cpc = "setup"
    /\ \/ /\ cfx' = cfx \o SetupSteps
          /\ cpc' = "run"
          /\ UNCHANGED cexit
       \/ /\ cfx' = cfx \o SubSeq(SetupSteps, 1, 2)
          /\ cexit' = "1"
          /\ cpc' = "failed"
    /\ UNCHANGED <<cli, cmode, verr>>

\* executor.go:177-181 - the closure calls Run and exits 1 on its error
CmdRun ==
    /\ cpc = "run"
    /\ cfx' = Append(cfx, "Run")
    /\ \E err \in {"nil", "run error"} :
          IF err # "nil"
          THEN /\ cexit' = "1"
               /\ cpc' = "failed"
          ELSE /\ cexit' = "0"
               /\ cpc' = "done"
    /\ UNCHANGED <<cli, cmode, verr>>

-----------------------------------------------------------------------------
(* archive.MirrorUnArchiver: NewArchiveExtractor and Unarchive.  A path is   *)
(* the sequence of its components, a file's content a sequence of bytes.     *)

\* Constants of package archive that unarchive.go uses
cacheFilePrefix == <<"docker", "registry", "v2">>

workingDirectory == <<"working-dir">>

\* archive/tar type flags of a header
TypeReg == "TypeReg"

TypeDir == "TypeDir"

TypeSymlink == "TypeSymlink"

\* filepath.Dir of a path of at least one component
Dir(p) == SubSeq(p, 1, Len(p) - 1)

\* unarchive.go:83-97 - where a regular file of the archive goes: <<>> when
\* Unarchive ignores it
Descriptor(o, name) ==
    IF Contains(name, workingDirectory) THEN Dir(o.workingDir) \o name
    ELSE IF Contains(name, cacheFilePrefix) THEN o.cacheDir \o name
    ELSE <<>>

\* The content of the file at a path, <<>> when there is none
ContentAt(fs, p) ==
    IF \E f \in fs : f.path = p THEN (CHOOSE f \in fs : f.path = p).content ELSE <<>>

\* Mutant of WriteTo: the file is truncated when it is opened
WriteToTruncated(old, data) == data

\* unarchive.go:105-112 - os.OpenFile with O_CREATE|O_RDWR and io.Copy from the
\* start of the file: the bytes of an older, longer file stay behind the copy
WriteTo(old, data) ==
    IF Len(old) > Len(data) THEN data \o SubSeq(old, Len(data) + 1, Len(old)) ELSE data

\* All the directories above a path, as os.MkdirAll makes them
Parents(p) == {SubSeq(p, 1, k) : k \in 1..Len(p)}

\* No extraction is going on
UnarchiveNew ==
    /\ upc = "new"
    /\ archiveFile = 0
    /\ uei = 1
    /\ dirs = {}
    /\ written = {}
    /\ uret = "none"

UnarchiveIdle ==
    /\ unarch = [workingDir |-> <<>>, cacheDir |-> <<>>, chunks |-> <<>>]
    /\ files = {}
    /\ UnarchiveNew

\* unarchive.go:21-41 - NewArchiveExtractor opens the chunk numbered 1 and no
\* other
NewArchiveExtractor ==
    /\ upc = "new"
    /\ \/ /\ archiveFile' = 1
          /\ upc' = "mkdir"
          /\ UNCHANGED uret
       \/ /\ uret' = "open error"
          /\ upc' = "done"
          /\ UNCHANGED archiveFile
    /\ UNCHANGED <<unarch, uei, files, dirs, written>>

\* unarchive.go:51-61 - Unarchive makes the working and the cache directory
UnarchiveMkdirs ==
    /\ upc = "mkdir"
    /\ \/ /\ dirs' = dirs \cup Parents(unarch.workingDir) \cup Parents(unarch.cacheDir)
          /\ upc' = "loop"
          /\ UNCHANGED uret
       \/ /\ uret' = "mkdir error"
          /\ upc' = "done"
          /\ UNCHANGED dirs
    /\ UNCHANGED <<unarch, archiveFile, uei, files, written>>

\* unarchive.go:62-119 - one turn of the loop over the entries of the open
\* chunk
UnarchiveEntry ==
    /\ upc = "loop"
    /\ uei <= Len(unarch.chunks[archiveFile])
    /\ LET header == unarch.chunks[archiveFile][uei]
           descriptor == Descriptor(unarch, header.Name)
       IN \/ /\ header.Typeflag = TypeReg /\ descriptor # <<>>
             /\ dirs' = dirs \cup Parents(Dir(descriptor))
             /\ files' = {f \in files : f.path # descriptor} \cup
                         {[path |-> descriptor,
                           content |-> WriteTo(ContentAt(files, descriptor), header.Content)]}
             /\ written' = written \cup {descriptor}
             /\ uei' = uei + 1
             /\ UNCHANGED <<upc, uret>>
          \/ /\ ~(header.Typeflag = TypeReg /\ descriptor # <<>>)
             /\ uei' = uei + 1
             /\ UNCHANGED <<upc, uret, files, dirs, written>>
          \/ /\ uret' = "error reading archive"
             /\ upc' = "done"
             /\ UNCHANGED <<uei, files, dirs, written>>
    /\ UNCHANGED <<unarch, archiveFile>>

\* unarchive.go:66-68, 120 - io.EOF of the open chunk ends Unarchive
UnarchiveEOF ==
    /\ upc = "loop"
    /\ uei > Len(unarch.chunks[archiveFile])
    /\ uret' = "nil"
    /\ upc' = "done"
    /\ UNCHANGED <<unarch, archiveFile, uei, files, dirs, written>>

-----------------------------------------------------------------------------
(* archive.ImageBlobGatherer: GatherBlobs.  A manifest is the record of what *)
(* its JSON holds; the image source is a function from digests to manifests. *)

MediaTypeImageIndex == "application/vnd.oci.image.index.v1+json"

MediaTypeImageManifest == "application/vnd.oci.image.manifest.v1+json"

DockerV2ListMediaType == "application/vnd.docker.distribution.manifest.list.v2+json"

DockerV2Schema2MediaType == "application/vnd.docker.distribution.manifest.v2+json"

\* Manifest bytes of length zero, as the Data of a descriptor that embeds nothing
NoBytes == [mime |-> "", Layers |-> <<>>, Config |-> "", Manifests |-> <<>>]

\* aManifest.Data of a descriptor of an OCI index
DataOf(store, aManifest) ==
    IF aManifest.Embedded /\ aManifest.Digest \in DOMAIN store
    THEN store[aManifest.Digest] ELSE NoBytes

\* part_006:96-107 - getBlobsOfOciManifest: the layers, then the config
getBlobsOfOciManifest(manifestBytes) ==
    IF manifestBytes = NoBytes
    THEN [blobs |-> <<>>, err |-> "error unmarshalling manifest"]
    ELSE [blobs |-> Append(manifestBytes.Layers, manifestBytes.Config), err |-> "nil"]

\* part_006:109-120 - getBlobsOfDockerManifest: the layers, then the config
getBlobsOfDockerManifest(manifestBytes) ==
    IF manifestBytes = NoBytes
    THEN [blobs |-> <<>>, err |-> "error unmarshalling manifest"]
    ELSE [blobs |-> Append(manifestBytes.Layers, manifestBytes.Config), err |-> "nil"]

RECURSIVE blobsOfMime(_, _, _)
RECURSIVE getBlobsOfIndexFrom(_, _, _)
RECURSIVE getBlobsOfManifestListFrom(_, _, _)

\* part_006:122-127, 159 - getBlobsOfIndex
getBlobsOfIndex(store, manifestBytes) ==
    IF manifestBytes = NoBytes
    THEN [blobs |-> <<>>, err |-> "error unmarshalling manifest"]
    ELSE getBlobsOfIndexFrom(store, manifestBytes.Manifests, <<>>)

\* part_006:162-168, 205 - getBlobsOfManifestList
getBlobsOfManifestList(store, manifestBytes) ==
    IF manifestBytes = NoBytes
    THEN [blobs |-> <<>>, err |-> "parsing schema2 manifest list"]
    ELSE getBlobsOfManifestListFrom(store, manifestBytes.Manifests, <<>>)

\* part_006:66-92 (and 130-156, 177-203) - the switch on the media type; a
\* type that has no case adds nothing
blobsOfMime(store, mime, manifestBytes) ==
    CASE mime = MediaTypeImageIndex -> getBlobsOfIndex(store, manifestBytes)
      [] mime = MediaTypeImageManifest -> getBlobsOfOciManifest(manifestBytes)
      [] mime = DockerV2ListMediaType -> getBlobsOfManifestList(store, manifestBytes)
      [] mime = DockerV2Schema2MediaType -> getBlobsOfDockerManifest(manifestBytes)
      [] OTHER -> [blobs |-> <<>>, err |-> "nil"]

\* part_006:128-157 - the loop of getBlobsOfIndex over the descriptors left:
\* the digest of the child, then what the child's embedded Data refers to
getBlobsOfIndexFrom(store, manifests, blobs) ==
    IF manifests = <<>> THEN [blobs |-> blobs, err |-> "nil"]
    ELSE LET aManifest == Head(manifests)
             withDigest == Append(blobs, aManifest.Digest)
             child == blobsOfMime(store, aManifest.MediaType, DataOf(store, aManifest))
         IN IF child.err # "nil" THEN [blobs |-> withDigest, err |-> child.err]
            ELSE getBlobsOfIndexFrom(store, Tail(manifests), withDigest \o child.blobs)

\* part_006:169-204 - the loop of getBlobsOfManifestList over the descriptors
\* left: the digest of the child, then what the manifest fetched by that
\* digest refers to
getBlobsOfManifestListFrom(store, manifests, blobs) ==
    IF manifests = <<>> THEN [blobs |-> blobs, err |-> "nil"]
    ELSE LET aManifest == Head(manifests)
             withDigest == Append(blobs, aManifest.Digest)
         IN IF aManifest.Digest \notin DOMAIN store
            THEN [blobs |-> <<>>, err |-> "error unmarshalling manifest"]
            ELSE LET fetched == store[aManifest.Digest]
                     child == blobsOfMime(store, fetched.mime, fetched)
                 IN IF child.err # "nil" THEN [blobs |-> withDigest, err |-> child.err]
                    ELSE getBlobsOfManifestListFrom(store, Tail(manifests),
                                                    withDigest \o child.blobs)

\* part_006:27-94 - GatherBlobs of the image whose top manifest has the digest
\* top: an empty list with every error
GatherBlobs(store, top) ==
    IF top \notin DOMAIN store THEN [blobs |-> <<>>, err |-> "manifest unknown"]
    ELSE LET found == blobsOfMime(store, store[top].mime, store[top])
         IN IF found.err # "nil" THEN [blobs |-> <<>>, err |-> found.err] ELSE found

\* No GatherBlobs call has been made
GatherNew ==
    /\ gpc = "new"
    /\ gopts = [All |-> FALSE, RemoveSignatures |-> FALSE]
    /\ gout = [blobs |-> <<>>, err |-> "none"]

GatherIdle ==
    /\ gstore = <<>>
    /\ gref = ""
    /\ GatherNew

\* part_006:27-94 - one GatherBlobs call; the image source may fail to open
GatherBlobsCall ==
    /\ gpc = "new"
    /\ gopts' = [All |-> TRUE, RemoveSignatures |-> TRUE]
    /\ \/ gout' = GatherBlobs(gstore, gref)
       \/ gout' = [blobs |-> <<>>, err |-> "image source"]
    /\ gpc' = "done"
    /\ UNCHANGED <<gstore, gref>>

-----------------------------------------------------------------------------
(* mirror.getRelatedImages and isPackageSelected.  A version string is the   *)
(* sequence of its tokens, <<>> the empty string.                            *)

\* The numbers that the numeric tokens of a version stand for
NumberOf(t) ==
    CASE t = "0" -> 0 [] t = "1" -> 1 [] t = "3" -> 3 [] t = "4" -> 4 [] t = "10" -> 10

NumberTokens == {"0", "1", "3", "4", "10"}

\* Pre-release identifiers in ASCII order
PreOrder == <<"alpha", "beta">>

\* semver.Make: major.minor.patch, then -pre if any; ok is FALSE when the
\* string is no semantic version
Make(s) ==
    IF /\ Len(s) \in {5, 7}
       /\ s[2] = "." /\ s[4] = "."
       /\ {s[1], s[3], s[5]} \subseteq NumberTokens
       /\ Len(s) = 7 => (s[6] = "-" /\ \E k \in 1..Len(PreOrder) : PreOrder[k] = s[7])
    THEN [ok |-> TRUE, Major |-> NumberOf(s[1]), Minor |-> NumberOf(s[3]),
          Patch |-> NumberOf(s[5]), Pre |-> IF Len(s) = 7 THEN s[7] ELSE ""]
    ELSE [ok |-> FALSE, Major |-> 0, Minor |-> 0, Patch |-> 0, Pre |-> ""]

\* Mutant of Compare: the patch number and the pre-release are not looked at
CompareMajorMinor(v, o) ==
    IF v.Major # o.Major THEN (IF v.Major > o.Major THEN 1 ELSE -1)
    ELSE IF v.Minor # o.Minor THEN (IF v.Minor > o.Minor THEN 1 ELSE -1)
    ELSE 0

\* semver.Version.Compare: -1, 0 or 1; a version with a pre-release is below
\* the same version without
Compare(v, o) ==
    LET rank(pre) == CHOOSE k \in 1..Len(PreOrder) : PreOrder[k] = pre
    IN IF v.Major # o.Major THEN (IF v.Major > o.Major THEN 1 ELSE -1)
       ELSE IF v.Minor # o.Minor THEN (IF v.Minor > o.Minor THEN 1 ELSE -1)
       ELSE IF v.Patch # o.Patch THEN (IF v.Patch > o.Patch THEN 1 ELSE -1)
       ELSE IF v.Pre = o.Pre THEN 0
       ELSE IF v.Pre = "" THEN 1
       ELSE IF o.Pre = "" THEN -1
       ELSE IF rank(v.Pre) > rank(o.Pre) THEN 1 ELSE -1

\* copy.go:641-652 - bundleVersion: the version of the olm.package property;
\* HasPackageProperty is FALSE for a bundle without that property
bundleVersion(bundle) ==
    IF bundle.HasPackageProperty THEN [version |-> bundle.Version, err |-> "nil"]
    ELSE [version |-> <<>>, err |-> "unable to find bundle version"]

\* copy.go:597-637 - what one entry of packages does to isSelected in the loop
\* of isPackageSelected
SelectedBy(pkg, bundle, isSelected) ==
    IF pkg.Name # bundle.Package THEN [isSelected |-> isSelected, err |-> "nil"]
    ELSE IF pkg.MinVersion = <<>> /\ pkg.MaxVersion = <<>>
    THEN [isSelected |-> TRUE, err |-> "nil"]
    ELSE LET bv == bundleVersion(bundle)
             pkgVer == Make(bv.version)
             min == Make(pkg.MinVersion)
             max == Make(pkg.MaxVersion)
         IN IF bv.err # "nil" THEN [isSelected |-> isSelected, err |-> bv.err]
            ELSE IF ~pkgVer.ok THEN [isSelected |-> isSelected, err |-> "semver"]
            ELSE IF pkg.MinVersion # <<>> /\ ~min.ok
            THEN [isSelected |-> isSelected, err |-> "semver"]
            ELSE IF pkg.MaxVersion # <<>> /\ ~max.ok
            THEN [isSelected |-> isSelected, err |-> "semver"]
            ELSE IF /\ pkg.MinVersion # <<>> /\ pkg.MaxVersion # <<>>
                    /\ Compare(pkgVer, min) >= 0 /\ Compare(pkgVer, max) <= 0
            THEN [isSelected |-> TRUE, err |-> "nil"]
            ELSE IF /\ pkg.MinVersion # <<>> /\ pkg.MaxVersion = <<>>
                    /\ Compare(pkgVer, min) >= 0
            THEN [isSelected |-> TRUE, err |-> "nil"]
            ELSE IF /\ pkg.MaxVersion # <<>> /\ pkg.MinVersion = <<>>
                    /\ Compare(pkgVer, max) <= 0
            THEN [isSelected |-> TRUE, err |-> "nil"]
            ELSE [isSelected |-> isSelected, err |-> "nil"]

\* copy.go:595-639 - isPackageSelected over the entries left, from the value
\* of isSelected so far; the channels are an argument that is not read
RECURSIVE isPackageSelectedFrom(_, _, _, _)
isPackageSelectedFrom(bundle, channels, pkgs, isSelected) ==
    IF pkgs = <<>> THEN [isSelected |-> isSelected, err |-> "nil"]
    ELSE LET r == SelectedBy(Head(pkgs), bundle, isSelected)
         IN IF r.err # "nil" THEN r
            ELSE isPackageSelectedFrom(bundle, channels, Tail(pkgs), r.isSelected)

isPackageSelected(bundle, channels, pkgs) ==
    isPackageSelectedFrom(bundle, channels, pkgs, FALSE)

\* Mutant of FinalList: nothing is taken out
FinalListAll(images) == images

\* copy.go:578-592 - the list without the entries whose image was seen before
RECURSIVE FinalList(_)
FinalList(images) ==
    IF images = <<>> THEN <<>>
    ELSE LET before == FinalList(SubSeq(images, 1, Len(images) - 1))
             i == images[Len(images)]
         IN IF \E k \in 1..Len(before) : before[k].Image = i.Image
            THEN before ELSE Append(before, i)

\* copy.go:568-577 - the loop over the bundles left: the first error ends it
RECURSIVE AllImagesFrom(_, _, _, _)
AllImagesFrom(bundles, channels, pkgs, images) ==
    IF bundles = <<>> THEN [images |-> images, err |-> "nil"]
    ELSE LET bundle == Head(bundles)
             sel == isPackageSelected(bundle, channels, pkgs)
         IN IF sel.err # "nil" THEN [images |-> <<>>, err |-> sel.err]
            ELSE AllImagesFrom(Tail(bundles), channels, pkgs,
                    IF sel.isSelected
                    THEN (images \o <<[Name |-> bundle.Package, Image |-> bundle.Image]>>)
                         \o bundle.RelatedImages
                    ELSE images)

\* copy.go:552-593 - getRelatedImages of a loaded catalog: without packages
\* every package of the catalog is taken
getRelatedImages(cfg, pkgs) ==
    LET all == [k \in 1..Len(cfg.Packages) |->
                   [Name |-> cfg.Packages[k], MinVersion |-> <<>>, MaxVersion |-> <<>>,
                    Channels |-> <<>>]]
        found == AllImagesFrom(cfg.Bundles, cfg.Channels, IF Len(pkgs) = 0 THEN all ELSE pkgs,
                               <<>>)
    IN IF found.err # "nil" THEN found
       ELSE [images |-> FinalList(found.images), err |-> "nil"]

\* No getRelatedImages call has been made
SelectNew ==
    /\ ripc = "new"
    /\ riout = [images |-> <<>>, err |-> "none"]

SelectIdle ==
    /\ fbc = [Packages |-> <<>>, Channels |-> <<>>, Bundles |-> <<>>]
    /\ packages = <<>>
    /\ SelectNew

\* copy.go:552-593 - one getRelatedImages call; declcfg.LoadFS may fail
GetRelatedImagesCall ==
    /\ ripc = "new"
    /\ \/ riout' = getRelatedImages(fbc, packages)
       \/ riout' = [images |-> <<>>, err |-> "LoadFS"]
    /\ ripc' = "done"
    /\ UNCHANGED <<fbc, packages>>

-----------------------------------------------------------------------------
(* mirror.findFBCConfig and UntarLayers.  A path under catalogContentsPath   *)
(* is the sequence of its components, <<>> the directory itself.              *)

\* copy.go:743-768 - what UntarLayers does with one tar header: the tree
\* after it and the error that ends the untar
UntarEntry(tree, header, cfgDirName) ==
    IF ~Contains(header.Name, cfgDirName) THEN [tree |-> tree, err |-> "nil"]
    ELSE IF header.Typeflag = TypeDir
    THEN IF \E p \in Parents(header.Name) : p \in tree.files
         THEN [tree |-> tree, err |-> "UntarLayers: Mkdir() failed"]
         ELSE [tree |-> [tree EXCEPT !.dirs = @ \cup Parents(header.Name) \cup {<<>>}],
               err |-> "nil"]
    ELSE IF header.Typeflag = TypeReg
    THEN IF Dir(header.Name) \notin tree.dirs \/ header.Name \in tree.dirs
         THEN [tree |-> tree, err |-> "UntarLayers: Create() failed"]
         ELSE [tree |-> [tree EXCEPT !.files = @ \cup {header.Name}], err |-> "nil"]
    ELSE [tree |-> tree, err |-> "nil"]

\* copy.go:727-773 - UntarLayers over the headers left of a layer
RECURSIVE UntarLayers(_, _, _)
UntarLayers(tree, headers, cfgDirName) ==
    IF headers = <<>> THEN [tree |-> tree, err |-> "nil"]
    ELSE LET r == UntarEntry(tree, Head(headers), cfgDirName)
         IN IF r.err # "nil" THEN r ELSE UntarLayers(r.tree, Tail(headers), cfgDirName)

\* copy.go:491-503 - the end of findFBCConfig: the config directory is
\* opened and read; it has to hold something
ConfigDirError(tree, cfgDirName) ==
    IF cfgDirName \notin tree.dirs /\ cfgDirName \notin tree.files
    THEN "unable to open temp folder containing extracted catalogs"
    ELSE IF cfgDirName \in tree.files
    THEN "unable to read temp folder containing extracted catalogs"
    ELSE IF \A p \in tree.dirs \cup tree.files : Len(p) = 0 \/ Dir(p) # cfgDirName
    THEN "no packages found in catalog"
    ELSE "nil"

\* No findFBCConfig call has been made
FindFBCNew ==
    /\ fpc = "new"
    /\ fli = 1
    /\ fret = "none"

FindFBCIdle ==
    /\ catalog = [layers |-> <<>>, cfgDirName |-> <<>>]
    /\ ftree = [dirs |-> {}, files |-> {}]
    /\ FindFBCNew

\* copy.go:460-476 - the image, its manifest and the label of its config are
\* read
FindFBCStart ==
    /\ fpc = "new"
    /\ \/ /\ fpc' = "layers"
          /\ UNCHANGED fret
       \/ /\ fret' = "unable to read the image"
          /\ fpc' = "done"
    /\ UNCHANGED <<catalog, ftree, fli>>

\* copy.go:479-490 - one layer is opened and untarred
FindFBCLayer ==
    /\ fpc = "layers"
    /\ fli <= Len(catalog.layers)
    /\ \/ LET r == UntarLayers(ftree, catalog.layers[fli], catalog.cfgDirName)
          IN /\ ftree' = r.tree
             /\ IF r.err # "nil"
                THEN /\ fret' = r.err
                     /\ fpc' = "done"
                     /\ UNCHANGED fli
                ELSE /\ fli' = fli + 1
                     /\ UNCHANGED <<fpc, fret>>
       \/ /\ fret' = "UntarLayers: NewReader failed"
          /\ fpc' = "done"
          /\ UNCHANGED <<ftree, fli>>
    /\ UNCHANGED catalog

\* copy.go:491-504 - after the last layer the config directory is looked at
FindFBCEnd ==
    /\ fpc = "layers"
    /\ fli > Len(catalog.layers)
    /\ fret' = ConfigDirError(ftree, catalog.cfgDirName)
    /\ fpc' = "done"
    /\ UNCHANGED <<catalog, ftree, fli>>

-----------------------------------------------------------------------------
(* signatureconfig.addMandatoryRegistries and addRegistry, in the two         *)
(* definitions the sources hold.  A registry URL is [scheme, rest]: scheme is *)
(* the text up to and with "://" (or "oci:"), "" when there is none; rest is  *)
(* the sequence of tokens after it, the host first.                           *)

dirProtocol == "dir://"

ociProtocol == "oci://"

\* registriesd.go:166-168 and part_004:111 - the destinations on disk
isDiskDestination(def, url) ==
    IF def = "registriesd.go"
    THEN url.scheme \in {fileProtocol, dirProtocol, ociProtocol, "oci:"}
    ELSE url.scheme \in {fileProtocol, dirProtocol, ociProtocol}

\* registriesd.go:170-178 - extractHostName, and part_004:117 - CutPrefix of
\* the docker protocol: the key of the registry, <<>> with err when there is
\* no "://" to split at
RegistryKey(def, url) ==
    IF def = "registriesd.go"
    THEN IF url.scheme \in {"", "oci:"}
         THEN [key |-> <<>>, err |-> "invalid input format"]
         ELSE [key |-> <<Head(url.rest)>>, err |-> "nil"]
    ELSE IF url.scheme \in {dockerProtocol, ""}
         THEN [key |-> url.rest, err |-> "nil"]
         ELSE [key |-> <<url.scheme>> \o url.rest, err |-> "nil"]

\* Mutant of KeepExisting: the file is written again when it is there
KeepExistingNever(dir, name) == FALSE

\* registriesd.go:136, 161-163 - a file of that name is left as it is
KeepExisting(dir, name) == \E f \in dir : f.name = name

\* registriesd.go:118-164 (part_004:110-155) - addRegistry: the directory
\* after it and the error
addRegistry(def, dir, url) ==
    IF isDiskDestination(def, url) THEN [dir |-> dir, err |-> "nil"]
    ELSE LET k == RegistryKey(def, url)
             name == k.key \o <<".yaml">>
         IN IF k.err # "nil" THEN [dir |-> dir, err |-> k.err]
            ELSE IF KeepExisting(dir, name) THEN [dir |-> dir, err |-> "nil"]
            ELSE [dir |-> {f \in dir : f.name # name} \cup
                          {[name |-> name, docker |-> {k.key}]},
                  err |-> "nil"]

\* registriesd.go:96-112 (part_004:96-104) - addMandatoryRegistries over the
\* registries left: the first error ends it
RECURSIVE addMandatoryRegistries(_, _, _)
addMandatoryRegistries(def, dir, registries) ==
    IF registries = <<>> THEN [dir |-> dir, err |-> "nil"]
    ELSE LET r == addRegistry(def, dir, Head(registries))
         IN IF r.err # "nil" THEN r ELSE addMandatoryRegistries(def, r.dir, Tail(registries))

\* The step has not run
RegistriesDNew ==
    /\ rpc = "new"
    /\ rret = "none"

RegistriesDIdle ==
    /\ rin = [registries |-> <<>>, Definition |-> ""]
    /\ regdir = {}
    /\ RegistriesDNew

\* registriesd.go:40-61 - SetRegistryConfiguration after the copy of the
\* user's registries.d: the files for the cache and the destination are added;
\* a file that cannot be made ends it with an error
AddMandatoryRegistriesCall ==
    /\ rpc = "new"
    /\ \/ LET r == addMandatoryRegistries(rin.Definition, regdir, rin.registries)
          IN /\ regdir' = r.dir
             /\ rret' = r.err
       \/ /\ \E k \in 1..Len(rin.registries) :
                ~isDiskDestination(rin.Definition, rin.registries[k])
          /\ rret' = "io error"
          /\ UNCHANGED regdir
    /\ rpc' = "done"
    /\ UNCHANGED rin

-----------------------------------------------------------------------------
(* cli.ExecutorSchema.ValidateDelete, CompleteDelete and the Run function of  *)
(* the delete command.  Flag values are sequences of tokens.                  *)

\* len(token): the bytes of a token
TokenLen(t) ==
    CASE t = dockerProtocol -> 9
      [] t = fileProtocol -> 7
      [] t = "test" -> 4
      [] OTHER -> 1

\* len(s) of a flag value
RECURSIVE StrLen(_)
StrLen(s) == IF s = <<>> THEN 0 ELSE TokenLen(Head(s)) + StrLen(Tail(s))

\* delete.go:119-125 - the --source flag is set and has file://
SourceError(o) ==
    IF StrLen(o.DeleteSource) = 0
    THEN "use the --source flag, it is mandatory when using the delete command"
    ELSE IF ~Contains(o.DeleteSource, <<fileProtocol>>)
         THEN "--source flag must have a file:// protocol prefix"
         ELSE "nil"

\* delete.go:126-134 - the flags each mode needs
ModeFlagsError(o) ==
    IF o.DeleteGenerate
    THEN IF StrLen(o.ConfigPath) = 0 \/ o.DeleteID = <<>>
         THEN "the --config and --delete-id flags are mandatory when used with the --generate flag"
         ELSE "nil"
    ELSE IF StrLen(o.DeleteYaml) = 0 \/ StrLen(o.DeleteDestination) = 0
         THEN "the --delete-yaml-file and --destination flags are mandatory when not using the --generate flag"
         ELSE "nil"

\* delete.go:135-137 - the protocol of --destination
DestinationError(o) ==
    IF StrLen(o.DeleteDestination) > 1 /\ ~Contains(o.DeleteDestination, <<dockerProtocol>>)
    THEN "--destination flag must have a docker:// protocol prefix"
    ELSE "nil"

\* delete.go:140-146 - the delete yaml file is on disk
DeleteYamlError(o, yamlExists) ==
    IF StrLen(o.DeleteYaml) > 0 /\ ~o.DeleteGenerate /\ ~yamlExists
    THEN "file not found"
    ELSE "nil"

\* The first error of a sequence of checks, "nil" when there is none
RECURSIVE FirstError(_)
FirstError(errs) ==
    IF errs = <<>> THEN "nil"
    ELSE IF Head(errs) # "nil" THEN Head(errs) ELSE FirstError(Tail(errs))

\* Mutant of ValidateDelete: the file and the destination are looked at
\* before the flags
ValidateDeleteBackwards(o, yamlExists) ==
    FirstError(<<DeleteYamlError(o, yamlExists), DestinationError(o),
                 ModeFlagsError(o), SourceError(o)>>)

\* delete.go:118-147 - ValidateDelete
ValidateDelete(o, yamlExists) ==
    FirstError(<<SourceError(o), ModeFlagsError(o), DestinationError(o),
                 DeleteYamlError(o, yamlExists)>>)

ImageSetConfigurationKind == "ImageSetConfiguration"

DeleteImageSetConfigurationKind == "DeleteImageSetConfiguration"

\* Mutant of ReadConfigDelete: the kind of the file is not looked at
ReadConfigAnyKind(configKind) ==
    IF configKind = "missing"
    THEN [Kind |-> "", err |-> "no such file or directory"]
    ELSE [Kind |-> DeleteImageSetConfigurationKind, err |-> "nil"]

\* part_002:47-72 - ReadConfigDelete of a file whose kind is configKind
\* ("missing": no file, "invalid": a delete configuration that does not
\* validate)
ReadConfigDelete(configKind) ==
    IF configKind = "missing"
    THEN [Kind |-> "", err |-> "no such file or directory"]
    ELSE IF configKind # DeleteImageSetConfigurationKind /\ configKind # "invalid"
         THEN [Kind |-> "", err |-> "config GVK not recognized"]
         ELSE IF configKind = "invalid"
              THEN [Kind |-> DeleteImageSetConfigurationKind, err |-> "invalid configuration"]
              ELSE [Kind |-> DeleteImageSetConfigurationKind, err |-> "nil"]

\* delete.go:150-240 - CompleteDelete: the error and whether o.Config was
\* set; setupErr is what the creation of the directories and the port gave
CompleteDelete(o, configKind, setupErr) ==
    LET cfg == ReadConfigDelete(configKind)
        configErr ==
            IF ~o.DeleteGenerate THEN "nil"
            ELSE IF cfg.err # "nil" THEN cfg.err
            ELSE IF cfg.Kind # DeleteImageSetConfigurationKind
                 THEN "using the delete functionality requires the 'DeleteImageSetConfiguration' kind set in the yaml file"
                 ELSE "nil"
        sourceErr ==
            IF Contains(o.DeleteSource, <<fileProtocol>>) THEN "nil"
            ELSE "--source flag must have a file:// protocol prefix"
    IN [err |-> FirstError(<<configErr, sourceErr, setupErr>>),
        config |-> o.DeleteGenerate /\ configErr = "nil"]

\* The Run function has not started
DeleteCmdNew ==
    /\ dcpc = "new"
    /\ dcerr = "none"
    /\ dconfig = FALSE
    /\ dcoll = FALSE
    /\ dwrote = FALSE

DeleteCmdIdle ==
    /\ dcli = [DeleteSource |-> <<>>, DeleteGenerate |-> FALSE, ConfigPath |-> <<>>,
               DeleteID |-> <<>>, DeleteYaml |-> <<>>, DeleteDestination |-> <<>>]
    /\ dfiles = [yamlExists |-> FALSE, configKind |-> "missing"]
    /\ DeleteCmdNew

\* delete.go:68-72 - ValidateDelete, os.Exit(1) on an error
DeleteCmdValidate ==
    /\ dcpc = "new"
    /\ LET err == ValidateDelete(dcli, dfiles.yamlExists)
       IN /\ dcerr' = err
          /\ dcpc' = IF err = "nil" THEN "validated" ELSE "exit in ValidateDelete"
    /\ UNCHANGED <<dcli, dfiles, dconfig, dcoll, dwrote>>

\* delete.go:73-77 - CompleteDelete, os.Exit(1) on an error
DeleteCmdComplete ==
    /\ dcpc = "validated"
    /\ \E setupErr \in {"nil", "setup failed", "port is already bound and cannot be used"} :
          LET r == CompleteDelete(dcli, dfiles.configKind, setupErr)
          IN /\ dcerr' = r.err
             /\ dconfig' = r.config
             /\ dcpc' = IF r.err = "nil" THEN "completed" ELSE "exit in CompleteDelete"
    /\ UNCHANGED <<dcli, dfiles, dcoll, dwrote>>

\* delete.go:78-83 - setupLocalStorage, os.Exit(1) on an error
DeleteCmdSetupLocalStorage ==
    /\ dcpc = "completed"
    /\ \E err \in {"nil", "storage failed"} :
          /\ dcerr' = err
          /\ dcpc' = IF err = "nil" THEN "storage" ELSE "exit in setupLocalStorage"
    /\ UNCHANGED <<dcli, dfiles, dconfig, dcoll, dwrote>>

\* delete.go:85-89, 243-302 - RunDelete: with --generate the images are
\* collected and the delete files written, without it the delete yaml is read
\* and the images deleted
DeleteCmdRunDelete ==
    /\ dcpc = "storage"
    /\ \E err \in {"nil", "failed"} :
          /\ dcerr' = err
          /\ dcoll' = dcli.DeleteGenerate
          /\ dwrote' = (dcli.DeleteGenerate /\ err = "nil")
          /\ dcpc' = IF err = "nil" THEN "done" ELSE "exit in RunDelete"
    /\ UNCHANGED <<dcli, dfiles, dconfig>>

-----------------------------------------------------------------------------
(* cli.ExecutorSchema.RunPrepare: the check of the local cache *)

MaxPrepareImages == 2

\* Destinations of release images in the local cache
PrepareDestinations == {"docker://localhost:55000/release:a", "docker://localhost:55000/release:b"}

\* What the release collector may give
PrepareImageLists ==
    UNION {[1..n -> PrepareDestinations] : n \in 0..MaxPrepareImages}

\* executor.go:493-496 - mergeImages
mergeImages(base, in) == base \o in

\* Mutant of CheckLoopDone: the loop ends at the first image that is missing
CheckLoopDoneAtMissing(images, checks, missing) ==
    Len(checks) = Len(images) \/ missing

\* executor.go:693 - the range over allRelatedImages has ended
CheckLoopDone(images, checks, missing) == Len(checks) = Len(images)

\* executor.go:698-700 - atLeastOneMissing after a call of Mirror.Check
MissingAfter(missing, exists, err) == missing \/ err \/ ~exists

\* RunPrepare has not started
PrepareNew ==
    /\ ppc = "new"
    /\ pimgs = <<>>
    /\ pchecks = <<>>
    /\ pmissing = FALSE
    /\ preport = <<>>
    /\ pret = "none"

PrepareIdle == PrepareNew

\* executor.go:622-676 - the logs directory, the working directories and
\* cached-images.txt are created, any failure is returned
PrepareSetup ==
    /\ ppc = "new"
    /\ \E err \in {"nil", "mkdir failed", "create failed"} :
          IF err = "nil"
          THEN /\ ppc' = "collect"
               /\ UNCHANGED pret
          ELSE /\ ppc' = "done"
               /\ pret' = err
    /\ UNCHANGED <<pimgs, pchecks, pmissing, preport>>

\* executor.go:679-692 - the release collector gives the images, or an error
\* that is returned after cleanUp
PrepareCollect ==
    /\ ppc = "collect"
    /\ \/ \E imgs \in PrepareImageLists :
             /\ pimgs' = mergeImages(<<>>, imgs)
             /\ ppc' = "check"
             /\ UNCHANGED pret
       \/ /\ pret' = "collector failed"
          /\ ppc' = "done"
          /\ UNCHANGED pimgs
    /\ UNCHANGED <<pchecks, pmissing, preport>>

\* executor.go:693-703 - one turn of the loop: Mirror.Check of the next image
PrepareCheck ==
    /\ ppc = "check"
    /\ ~CheckLoopDone(pimgs, pchecks, pmissing)
    /\ \E exists \in BOOLEAN, err \in BOOLEAN :
          LET img == pimgs[Len(pchecks) + 1]
          IN /\ pchecks' = Append(pchecks, [Destination |-> img, exists |-> exists, err |-> err])
             /\ pmissing' = MissingAfter(pmissing, exists, err)
    /\ UNCHANGED <<ppc, pimgs, preport, pret>>

\* executor.go:705-722 - after the loop the list is written and the result
\* returned
PrepareFinish ==
    /\ ppc = "check"
    /\ CheckLoopDone(pimgs, pchecks, pmissing)
    /\ \E writeErr \in {"nil", "write failed"} :
          /\ preport' = IF writeErr = "nil" THEN [k \in 1..Len(pchecks) |-> pchecks[k].Destination]
                        ELSE <<>>
          /\ pret' = IF writeErr # "nil" THEN writeErr
                     ELSE IF pmissing
                          THEN "all images necessary for mirroring are not available in the cache"
                          ELSE "nil"
    /\ ppc' = "done"
    /\ UNCHANGED <<pimgs, pchecks, pmissing>>

-----------------------------------------------------------------------------
(* cli.ExecutorSchema.RunDelete with --generate: the release folders, the    *)
(* operator images and the additional images on their way to                 *)
(* WriteDeleteMetaData                                                       *)

\* An image a collector of the delete command returns
DeleteImage(name, type) == [Origin |-> 0, Destination |-> RemoteRef(name), Type |-> type]

\* The release folders IdentifyReleases may find
ReleaseFolders == <<"release-a", "release-b", "release-c">>

\* What CollectReleaseImages may return for a folder: its images, or nothing
\* with an error that is logged
ReleaseImagesOf(folder) ==
    {<<DeleteImage(folder, TypeOCPRelease)>>,
     <<DeleteImage(folder, TypeOCPRelease), DeleteImage(folder, TypeOCPReleaseContent)>>,
     <<>>}

\* Mutant of KeepCollected: the images of a folder are added to the list
KeepCollectedAppend(all, images) == all \o images

\* delete.go:260 - allImages, err = o.Delete.CollectReleaseImages(i)
KeepCollected(all, images) == images

\* The generate branch has not started
GenerateNew ==
    /\ gdcollected = <<>>
    /\ gdother = [oi |-> <<>>, ai |-> <<>>]
    /\ gdall = <<>>
    /\ gdpc = "identify"
    /\ gdpassed = <<>>

GenerateIdle ==
    /\ gdfolders = <<>>
    /\ GenerateNew

\* delete.go:253-256 - IdentifyReleases: an error is logged and the run goes
\* on with the folders returned
GenerateIdentify ==
    /\ gdpc = "identify"
    /\ gdpc' = "releases"
    /\ UNCHANGED <<gdfolders, gdcollected, gdother, gdall, gdpassed>>

\* delete.go:259-264 - one turn of the loop over the release folders
GenerateCollectRelease ==
    /\ gdpc = "releases"
    /\ Len(gdcollected) < Len(gdfolders)
    /\ \E images \in ReleaseImagesOf(gdfolders[Len(gdcollected) + 1]) :
          /\ gdall' = KeepCollected(gdall, images)
          /\ gdcollected' = Append(gdcollected, images)
    /\ UNCHANGED <<gdfolders, gdother, gdpc, gdpassed>>

\* delete.go:266-278 - the operator images and the additional images are
\* appended; an error of a collector is logged
GenerateCollectOthers ==
    /\ gdpc = "releases"
    /\ Len(gdcollected) = Len(gdfolders)
    /\ \E oi \in {<<>>, <<DeleteImage("operator", TypeOperatorBundle)>>},
          ai \in {<<>>, <<DeleteImage("additional", TypeGeneric)>>} :
          /\ gdother' = [oi |-> oi, ai |-> ai]
          /\ gdall' = (gdall \o oi) \o ai
    /\ gdpc' = "write"
    /\ UNCHANGED <<gdfolders, gdcollected, gdpassed>>

\* delete.go:280-283 - WriteDeleteMetaData(allImages)
GenerateWrite ==
    /\ gdpc = "write"
    /\ gdpassed' = <<gdall>>
    /\ gdpc' = "done"
    /\ UNCHANGED <<gdfolders, gdcollected, gdother, gdall>>

-----------------------------------------------------------------------------
(* Batch.Worker seen from Mirror.Run: each call and each return is a step *)

\* Mutant of AfterCall: Worker goes on to the next image while the copy runs
AfterCallAsync(idx) == [pc |-> "loop", idx |-> idx + 1]

\* worker.go:58 - err := o.Mirror.Run(...): Worker waits inside the call
AfterCall(idx) == [pc |-> "inRun", idx |-> idx]

\* Worker has not been called
CallsNew ==
    /\ cwpc = "loop"
    /\ cwidx = 1
    /\ inflight = {}
    /\ events = <<>>

CallsIdle == CallsNew

\* worker.go:49-58 - the next image of the range loop: a synthetic graph image
\* is tallied, any other image is handed to Mirror.Run
CallsNext ==
    /\ cwpc = "loop"
    /\ cwidx <= Len(collectorSchema.AllImages)
    /\ LET img == collectorSchema.AllImages[cwidx] IN
       IF IsSynthetic(img, opts)
       THEN /\ cwidx' = cwidx + 1
            /\ UNCHANGED <<cwpc, inflight, events>>
       ELSE /\ events' = Append(events, [kind |-> "call", Origin |-> img.Origin, result |-> ""])
            /\ inflight' = inflight \cup {img.Origin}
            /\ cwpc' = AfterCall(cwidx).pc
            /\ cwidx' = AfterCall(cwidx).idx

\* worker.go:58-85 - Mirror.Run returns: Worker goes to the next image, or
\* returns at once when a release image failed
CallsReturn ==
    /\ cwpc \in {"loop", "inRun"}
    /\ \E origin \in inflight, err \in RunResults :
          /\ events' = Append(events, [kind |-> "return", Origin |-> origin, result |-> err])
          /\ inflight' = inflight \ {origin}
          /\ IF err # RunOk /\ ~IsFailSafe(collectorSchema.AllImages[origin])
             THEN /\ cwpc' = "returned"
                  /\ UNCHANGED cwidx
             ELSE IF cwpc = "inRun"
             THEN /\ cwpc' = "loop"
                  /\ cwidx' = cwidx + 1
             ELSE UNCHANGED <<cwpc, cwidx>>

\* worker.go:89-140 - the range loop is over
CallsEnd ==
    /\ cwpc = "loop"
    /\ cwidx > Len(collectorSchema.AllImages)
    /\ cwpc' = "returned"
    /\ UNCHANGED <<cwidx, inflight, events>>

-----------------------------------------------------------------------------
(* release.LocalStorageCollector.ReleaseImageCollector in MirrorToDisk mode, *)
(* over several runs with one configuration                                  *)

MaxPayloads == 2

MaxRuns == 2

\* The releases Cincinnati gives for the configuration
ReleasePayloads == [k \in 1..MaxPayloads |-> k]

\* local_stored_collector.go:76 - os.Stat(dir) says the directory is not there
DirNotExist(disk, payload) == disk[payload] = "absent"

\* Sanity variant of DirAfterFailedPull: the directory is taken away again
DirRemovedAfterFailedPull(before) == "absent"

\* local_stored_collector.go:78-85 - the directory made by MkdirAll stays
\* when Mirror.Run fails
DirAfterFailedPull(before) == "partial"

\* local_stored_collector.go:100-104 - GetImageIndex reads index.json of dir
GetImageIndexError(state) == IF state = "image" THEN "nil" ELSE "image index error"

\* The collector has not been called
ReleaseCollectorNew ==
    /\ rlrun = 1
    /\ rlidx = 1
    /\ rlpc = "loop"
    /\ rllog = <<>>
    /\ rlret = "none"

ReleaseCollectorIdle ==
    /\ rldisk = <<>>
    /\ ReleaseCollectorNew

\* local_stored_collector.go:60-146 - one turn of the loop over the releases:
\* the payload is pulled when its directory is not there, then the index, the
\* manifest and the layers are read; any error ends the collector
ReleaseCollectorTurn ==
    /\ rlpc = "loop"
    /\ rlidx <= Len(ReleasePayloads)
    /\ LET payload == ReleasePayloads[rlidx]
           entry(pulled, result) ==
               [run |-> rlrun, payload |-> payload, pulled |-> pulled, result |-> result]
           fail(pulled, result) ==
               /\ rllog' = Append(rllog, entry(pulled, result))
               /\ rlret' = result
               /\ rlpc' = "returned"
               /\ UNCHANGED rlidx
           read(disk, pulled) ==
               \E err \in {GetImageIndexError(disk[payload])}
                          \cup (IF disk[payload] = "image" THEN {"extract error"} ELSE {}) :
                  IF err # "nil" THEN fail(pulled, err)
                  ELSE /\ rllog' = Append(rllog, entry(pulled, "nil"))
                       /\ rlidx' = rlidx + 1
                       /\ UNCHANGED <<rlpc, rlret>>
       IN IF DirNotExist(rldisk, payload)
          THEN \/ /\ fail(FALSE, "mkdir error")
                  /\ UNCHANGED rldisk
               \/ /\ rldisk' = [rldisk EXCEPT ![payload] = DirAfterFailedPull(@)]
                  /\ fail(TRUE, "pull error")
               \/ /\ rldisk' = [rldisk EXCEPT ![payload] = "image"]
                  /\ read(rldisk', TRUE)
          ELSE /\ UNCHANGED rldisk
               /\ read(rldisk, FALSE)
    /\ UNCHANGED rlrun

\* local_stored_collector.go:147-166 - after the loop the collector returns
ReleaseCollectorEnd ==
    /\ rlpc = "loop"
    /\ rlidx > Len(ReleasePayloads)
    /\ \E err \in {"nil", "unable to save cincinnati response"} : rlret' = err
    /\ rlpc' = "returned"
    /\ UNCHANGED <<rldisk, rlrun, rlidx, rllog>>

\* A later MirrorToDisk run with the same configuration and the same disk
ReleaseCollectorRunAgain ==
    /\ rlpc = "returned"
    /\ rlrun < MaxRuns
    /\ rlrun' = rlrun + 1
    /\ rlidx' = 1
    /\ rlpc' = "loop"
    /\ rlret' = "none"
    /\ UNCHANGED <<rldisk, rllog>>

-----------------------------------------------------------------------------
(* operator.LocalStorageCollector.OperatorImageCollector *)

MaxCatalogs == 2

\* The catalogs a configuration may list
CatalogNames == <<"redhat-operator-index:v4.12", "certified-operator-index:v4.12",
                  "community-operator-index:v4.12">>

\* What GetRelatedImagesFromCatalog or GetRelatedImagesFromCatalogByFilter may
\* return for a op: a map from bundle names to related images
RelatedImagesOf(op) ==
    {{[key |-> <<op, "bundle-a">>, Image |-> <<op, "operator-a">>]},
     {[key |-> <<op, "bundle-a">>, Image |-> <<op, "operator-a">>],
      [key |-> <<op, "bundle-b">>, Image |-> <<"shared-operand">>]}}

\* Sanity variant of AssignRelated: the images of a catalog are merged in
AssignRelatedMerged(before, found) == before \cup found

\* local_stored_collector.go:146-152 - relatedImages, err = ...: the map the
\* catalog gave takes the place of the map so far
AssignRelated(before, found) == found

\* local_stored_collector.go:157-162 - relatedImages["index"] is set to the
\* index image of the catalog
WithIndex(related, op) ==
    {e \in related : e.key # <<"index">>} \cup {[key |-> <<"index">>, Image |-> <<op>>]}

\* The collector has not been called
OperatorCollectorNew ==
    /\ oidx = 1
    /\ orelated = {}
    /\ oselected = <<>>
    /\ opc = "loop"
    /\ oret = [images |-> {}, err |-> "none"]

OperatorCollectorIdle ==
    /\ ocfg = [Operators |-> <<>>, Mode |-> MirrorToDisk]
    /\ OperatorCollectorNew

\* local_stored_collector.go:66-163 - one turn of the loop over the
\* operators: the catalog is copied and extracted and its related images are
\* read; every error but that of Mirror.Run ends the collector
OperatorCollectorTurn ==
    /\ opc = "loop"
    /\ oidx <= Len(ocfg.Operators)
    /\ LET op == ocfg.Operators[oidx]
       IN \/ /\ oret' = [images |-> {}, err |-> "catalog error"]
             /\ opc' = "returned"
             /\ UNCHANGED <<oidx, orelated, oselected>>
          \/ \E found \in RelatedImagesOf(op) :
                /\ orelated' = WithIndex(AssignRelated(orelated, found), op)
                /\ oselected' = Append(oselected, WithIndex(found, op))
                /\ oidx' = oidx + 1
                /\ UNCHANGED <<opc, oret>>
    /\ UNCHANGED ocfg

\* local_stored_collector.go:165-186 - after the loop the batch is made from
\* the map: prepareM2DCopyBatch or prepareD2MCopyBatch
OperatorCollectorEnd ==
    /\ opc = "loop"
    /\ oidx > Len(ocfg.Operators)
    /\ \/ oret' = [images |-> {}, err |-> "prepare error"]
       \/ oret' = [images |-> {e.Image : e \in orelated}, err |-> "nil"]
    /\ opc' = "returned"
    /\ UNCHANGED <<ocfg, oidx, orelated, oselected>>

-----------------------------------------------------------------------------
(* Specification of one Batch.Worker call on a new Batch *)

\* A collector-made list of MaxImages images at most; Origin names the position
ImageLists ==
    UNION {[1..n -> ImageTypes] : n \in 0..MaxImages}

SchemaOf(types) ==
    [AllImages |-> [i \in 1..Len(types) |->
        [Origin |-> i, Destination |-> "docker://dst", Type |-> types[i]]]]

\* Mode and Function as the mirror and delete commands set them
WorkerOpts ==
    {[Mode |-> MirrorToDisk, Function |-> CopyMode],
     [Mode |-> DiskToMirror, Function |-> CopyMode],
     [Mode |-> MirrorToMirror, Function |-> CopyMode],
     [Mode |-> "", Function |-> DeleteMode]}

WorkerCall ==
    /\ wpc = "idle"
    /\ WorkerEntry(collectorSchema, opts)
    /\ UNCHANGED <<CopiedImages, Progress, runLog, errorLog>>

InitWorker ==
    /\ BatchNew
    /\ ExecutorIdle
    /\ DeleteIdle
    /\ TransportIdle
    /\ CmdIdle
    /\ UnarchiveIdle
    /\ GatherIdle
    /\ \E types \in ImageLists : collectorSchema = SchemaOf(types)
    /\ opts \in WorkerOpts
    /\ SelectIdle
    /\ FindFBCIdle
    /\ RegistriesDIdle
    /\ DeleteCmdIdle
    /\ PrepareIdle
    /\ GenerateIdle
    /\ CallsIdle
    /\ ReleaseCollectorIdle
    /\ OperatorCollectorIdle

NextWorker ==
    \/ WorkerCall /\ UNCHANGED <<xvars, dvars>> /\ UNCHANGED tvars /\ UNCHANGED cvars /\ UNCHANGED uvars /\ UNCHANGED gvars /\ UNCHANGED svars /\ UNCHANGED fvars /\ UNCHANGED rvars /\ UNCHANGED kvars /\ UNCHANGED pvars /\ UNCHANGED qvars /\ UNCHANGED evars /\ UNCHANGED lvars /\ UNCHANGED hvars
    \/ WorkerLoop /\ UNCHANGED <<xvars, dvars>> /\ UNCHANGED tvars /\ UNCHANGED cvars /\ UNCHANGED uvars /\ UNCHANGED gvars /\ UNCHANGED svars /\ UNCHANGED fvars /\ UNCHANGED rvars /\ UNCHANGED kvars /\ UNCHANGED pvars /\ UNCHANGED qvars /\ UNCHANGED evars /\ UNCHANGED lvars /\ UNCHANGED hvars
    \/ WorkerEnd /\ UNCHANGED <<xvars, dvars>> /\ UNCHANGED tvars /\ UNCHANGED cvars /\ UNCHANGED uvars /\ UNCHANGED gvars /\ UNCHANGED svars /\ UNCHANGED fvars /\ UNCHANGED rvars /\ UNCHANGED kvars /\ UNCHANGED pvars /\ UNCHANGED qvars /\ UNCHANGED evars /\ UNCHANGED lvars /\ UNCHANGED hvars

SpecWorker == InitWorker /\ [][NextWorker]_vars


-----------------------------------------------------------------------------
(* Specification of one mirror run: MirrorToDisk or DiskToMirror *)

InitRun ==
    /\ BatchNew
    /\ collectorSchema = [AllImages |-> <<>>]
    /\ opts = [Mode |-> "", Function |-> CopyMode]
    /\ ExecutorNew
    /\ DeleteIdle
    /\ TransportIdle
    /\ CmdIdle
    /\ UnarchiveIdle
    /\ GatherIdle
    /\ xcfg \in [Mode : {MirrorToDisk, DiskToMirror}, MaxNestedPaths : BOOLEAN,
                 Graph : BOOLEAN]
    /\ SelectIdle
    /\ FindFBCIdle
    /\ RegistriesDIdle
    /\ DeleteCmdIdle
    /\ PrepareIdle
    /\ GenerateIdle
    /\ CallsIdle
    /\ ReleaseCollectorIdle
    /\ OperatorCollectorIdle

NextRun ==
    \/ RunStart /\ UNCHANGED <<wvars, dvars>> /\ UNCHANGED tvars /\ UNCHANGED cvars /\ UNCHANGED uvars /\ UNCHANGED gvars /\ UNCHANGED svars /\ UNCHANGED fvars /\ UNCHANGED rvars /\ UNCHANGED kvars /\ UNCHANGED pvars /\ UNCHANGED qvars /\ UNCHANGED evars /\ UNCHANGED lvars /\ UNCHANGED hvars
    \/ RegistryListen /\ UNCHANGED <<wvars, dvars>> /\ UNCHANGED tvars /\ UNCHANGED cvars /\ UNCHANGED uvars /\ UNCHANGED gvars /\ UNCHANGED svars /\ UNCHANGED fvars /\ UNCHANGED rvars /\ UNCHANGED kvars /\ UNCHANGED pvars /\ UNCHANGED qvars /\ UNCHANGED evars /\ UNCHANGED lvars /\ UNCHANGED hvars
    \/ RegistryFail /\ UNCHANGED <<wvars, dvars>> /\ UNCHANGED tvars /\ UNCHANGED cvars /\ UNCHANGED uvars /\ UNCHANGED gvars /\ UNCHANGED svars /\ UNCHANGED fvars /\ UNCHANGED rvars /\ UNCHANGED kvars /\ UNCHANGED pvars /\ UNCHANGED qvars /\ UNCHANGED evars /\ UNCHANGED lvars /\ UNCHANGED hvars
    \/ RegistrySendError /\ UNCHANGED <<wvars, dvars>> /\ UNCHANGED tvars /\ UNCHANGED cvars /\ UNCHANGED uvars /\ UNCHANGED gvars /\ UNCHANGED svars /\ UNCHANGED fvars /\ UNCHANGED rvars /\ UNCHANGED kvars /\ UNCHANGED pvars /\ UNCHANGED qvars /\ UNCHANGED evars /\ UNCHANGED lvars /\ UNCHANGED hvars
    \/ RegistryReturnNil /\ UNCHANGED <<wvars, dvars>> /\ UNCHANGED tvars /\ UNCHANGED cvars /\ UNCHANGED uvars /\ UNCHANGED gvars /\ UNCHANGED svars /\ UNCHANGED fvars /\ UNCHANGED rvars /\ UNCHANGED kvars /\ UNCHANGED pvars /\ UNCHANGED qvars /\ UNCHANGED evars /\ UNCHANGED lvars /\ UNCHANGED hvars
    \/ RegistrySendNil /\ UNCHANGED <<wvars, dvars>> /\ UNCHANGED tvars /\ UNCHANGED cvars /\ UNCHANGED uvars /\ UNCHANGED gvars /\ UNCHANGED svars /\ UNCHANGED fvars /\ UNCHANGED rvars /\ UNCHANGED kvars /\ UNCHANGED pvars /\ UNCHANGED qvars /\ UNCHANGED evars /\ UNCHANGED lvars /\ UNCHANGED hvars
    \/ CollectRelease /\ UNCHANGED <<wvars, dvars>> /\ UNCHANGED tvars /\ UNCHANGED cvars /\ UNCHANGED uvars /\ UNCHANGED gvars /\ UNCHANGED svars /\ UNCHANGED fvars /\ UNCHANGED rvars /\ UNCHANGED kvars /\ UNCHANGED pvars /\ UNCHANGED qvars /\ UNCHANGED evars /\ UNCHANGED lvars /\ UNCHANGED hvars
    \/ CollectOperator /\ UNCHANGED <<wvars, dvars>> /\ UNCHANGED tvars /\ UNCHANGED cvars /\ UNCHANGED uvars /\ UNCHANGED gvars /\ UNCHANGED svars /\ UNCHANGED fvars /\ UNCHANGED rvars /\ UNCHANGED kvars /\ UNCHANGED pvars /\ UNCHANGED qvars /\ UNCHANGED evars /\ UNCHANGED lvars /\ UNCHANGED hvars
    \/ CollectAdditional /\ UNCHANGED <<wvars, dvars>> /\ UNCHANGED tvars /\ UNCHANGED cvars /\ UNCHANGED uvars /\ UNCHANGED gvars /\ UNCHANGED svars /\ UNCHANGED fvars /\ UNCHANGED rvars /\ UNCHANGED kvars /\ UNCHANGED pvars /\ UNCHANGED qvars /\ UNCHANGED evars /\ UNCHANGED lvars /\ UNCHANGED hvars
    \/ NestedPaths /\ UNCHANGED <<wvars, dvars>> /\ UNCHANGED tvars /\ UNCHANGED cvars /\ UNCHANGED uvars /\ UNCHANGED gvars /\ UNCHANGED svars /\ UNCHANGED fvars /\ UNCHANGED rvars /\ UNCHANGED kvars /\ UNCHANGED pvars /\ UNCHANGED qvars /\ UNCHANGED evars /\ UNCHANGED lvars /\ UNCHANGED hvars
    \/ RunCallWorker /\ UNCHANGED dvars /\ UNCHANGED tvars /\ UNCHANGED cvars /\ UNCHANGED uvars /\ UNCHANGED gvars /\ UNCHANGED svars /\ UNCHANGED fvars /\ UNCHANGED rvars /\ UNCHANGED kvars /\ UNCHANGED pvars /\ UNCHANGED qvars /\ UNCHANGED evars /\ UNCHANGED lvars /\ UNCHANGED hvars
    \/ ~crashed /\ WorkerLoop /\ UNCHANGED <<xvars, dvars>> /\ UNCHANGED tvars /\ UNCHANGED cvars /\ UNCHANGED uvars /\ UNCHANGED gvars /\ UNCHANGED svars /\ UNCHANGED fvars /\ UNCHANGED rvars /\ UNCHANGED kvars /\ UNCHANGED pvars /\ UNCHANGED qvars /\ UNCHANGED evars /\ UNCHANGED lvars /\ UNCHANGED hvars
    \/ ~crashed /\ WorkerEnd /\ UNCHANGED <<xvars, dvars>> /\ UNCHANGED tvars /\ UNCHANGED cvars /\ UNCHANGED uvars /\ UNCHANGED gvars /\ UNCHANGED svars /\ UNCHANGED fvars /\ UNCHANGED rvars /\ UNCHANGED kvars /\ UNCHANGED pvars /\ UNCHANGED qvars /\ UNCHANGED evars /\ UNCHANGED lvars /\ UNCHANGED hvars
    \/ RunWorkerReturned /\ UNCHANGED dvars /\ UNCHANGED tvars /\ UNCHANGED cvars /\ UNCHANGED uvars /\ UNCHANGED gvars /\ UNCHANGED svars /\ UNCHANGED fvars /\ UNCHANGED rvars /\ UNCHANGED kvars /\ UNCHANGED pvars /\ UNCHANGED qvars /\ UNCHANGED evars /\ UNCHANGED lvars /\ UNCHANGED hvars
    \/ StopRegistry /\ UNCHANGED <<wvars, dvars>> /\ UNCHANGED tvars /\ UNCHANGED cvars /\ UNCHANGED uvars /\ UNCHANGED gvars /\ UNCHANGED svars /\ UNCHANGED fvars /\ UNCHANGED rvars /\ UNCHANGED kvars /\ UNCHANGED pvars /\ UNCHANGED qvars /\ UNCHANGED evars /\ UNCHANGED lvars /\ UNCHANGED hvars
    \/ BuildArchiveBegin /\ UNCHANGED <<wvars, dvars>> /\ UNCHANGED tvars /\ UNCHANGED cvars /\ UNCHANGED uvars /\ UNCHANGED gvars /\ UNCHANGED svars /\ UNCHANGED fvars /\ UNCHANGED rvars /\ UNCHANGED kvars /\ UNCHANGED pvars /\ UNCHANGED qvars /\ UNCHANGED evars /\ UNCHANGED lvars /\ UNCHANGED hvars
    \/ BuildArchiveEnd /\ UNCHANGED <<wvars, dvars>> /\ UNCHANGED tvars /\ UNCHANGED cvars /\ UNCHANGED uvars /\ UNCHANGED gvars /\ UNCHANGED svars /\ UNCHANGED fvars /\ UNCHANGED rvars /\ UNCHANGED kvars /\ UNCHANGED pvars /\ UNCHANGED qvars /\ UNCHANGED evars /\ UNCHANGED lvars /\ UNCHANGED hvars
    \/ GenerateIDMS /\ UNCHANGED <<wvars, dvars>> /\ UNCHANGED tvars /\ UNCHANGED cvars /\ UNCHANGED uvars /\ UNCHANGED gvars /\ UNCHANGED svars /\ UNCHANGED fvars /\ UNCHANGED rvars /\ UNCHANGED kvars /\ UNCHANGED pvars /\ UNCHANGED qvars /\ UNCHANGED evars /\ UNCHANGED lvars /\ UNCHANGED hvars
    \/ GenerateCatalogSource /\ UNCHANGED <<wvars, dvars>> /\ UNCHANGED tvars /\ UNCHANGED cvars /\ UNCHANGED uvars /\ UNCHANGED gvars /\ UNCHANGED svars /\ UNCHANGED fvars /\ UNCHANGED rvars /\ UNCHANGED kvars /\ UNCHANGED pvars /\ UNCHANGED qvars /\ UNCHANGED evars /\ UNCHANGED lvars /\ UNCHANGED hvars
    \/ GenerateUpdateService /\ UNCHANGED <<wvars, dvars>> /\ UNCHANGED tvars /\ UNCHANGED cvars /\ UNCHANGED uvars /\ UNCHANGED gvars /\ UNCHANGED svars /\ UNCHANGED fvars /\ UNCHANGED rvars /\ UNCHANGED kvars /\ UNCHANGED pvars /\ UNCHANGED qvars /\ UNCHANGED evars /\ UNCHANGED lvars /\ UNCHANGED hvars

SpecRun == InitRun /\ [][NextRun]_vars

-----------------------------------------------------------------------------
(* Specification of one delete run: generate or execute *)

\* Blobs an item of a delete YAML may list: digests, an entry without the
\* "sha256:" prefix, and a digest cut short
HexDigits == <<"1", "2", "3", "4">>

ItemDigest(k) == <<sha256Prefix, "a", HexDigits[k], "f">>

BlobLists(k) ==
    {<<>>, <<ItemDigest(k), <<sha256Prefix, "c", "d", "e">>>>,
     <<ItemDigest(k), <<"a", "b", "c">>>>, <<<<sha256Prefix, "a">>>>}

\* A delete YAML at hand: absent, not parseable, or MaxItems items at most
YamlItems(k) ==
    [ImageName : {k}, ImageReference : {RemoteRef(ImageNames[k])},
     Type : {TypeOCPRelease, TypeGeneric}, RelatedBlobs : BlobLists(k)]

DeleteYamls ==
    {NoYaml("missing"), NoYaml("malformed")}
    \cup UNION {{YamlOf(it) : it \in {l \in [1..n -> UNION {YamlItems(k) : k \in 1..n}] :
                                        \A k \in 1..n : l[k] \in YamlItems(k)}}
               : n \in 0..MaxItems}

\* Only an execute run of the first definition looks into the items
YamlsFor(o) ==
    IF o.DeleteGenerate \/ o.Definition = "second"
    THEN {y \in DeleteYamls : Len(y.Items) = 0}
         \cup {YamlOf(<<it>>) : it \in {i \in YamlItems(1) : i.RelatedBlobs = <<>>}}
    ELSE DeleteYamls

\* Flags as ValidateDelete lets them through: an execute run names a
\* destination, a generate run names a delete id
DeleteOpts ==
    [DeleteGenerate : {FALSE}, ForceCacheDelete : BOOLEAN,
     DeleteDestination : {RemoteRegistry}, DeleteID : {""}, Definition : {"first"}]
    \cup [DeleteGenerate : {TRUE}, ForceCacheDelete : BOOLEAN,
          DeleteDestination : {<<>>, RemoteRegistry}, DeleteID : {"v1"},
          Definition : {"first"}]
    \cup [DeleteGenerate : {FALSE}, ForceCacheDelete : {FALSE},
          DeleteDestination : {RemoteRegistry}, DeleteID : {""}, Definition : {"second"}]

InitDelete ==
    /\ BatchNew
    /\ collectorSchema = [AllImages |-> <<>>]
    /\ opts = [Mode |-> "", Function |-> DeleteMode]
    /\ ExecutorIdle
    /\ DeleteNew
    /\ TransportIdle
    /\ CmdIdle
    /\ UnarchiveIdle
    /\ GatherIdle
    /\ dopts \in DeleteOpts
    /\ deleteYaml \in YamlsFor(dopts)
    /\ SelectIdle
    /\ FindFBCIdle
    /\ RegistriesDIdle
    /\ DeleteCmdIdle
    /\ PrepareIdle
    /\ GenerateIdle
    /\ CallsIdle
    /\ ReleaseCollectorIdle
    /\ OperatorCollectorIdle

NextDelete ==
    \/ RunDeleteStart /\ UNCHANGED wvars /\ UNCHANGED tvars /\ UNCHANGED cvars /\ UNCHANGED uvars /\ UNCHANGED gvars /\ UNCHANGED svars /\ UNCHANGED fvars /\ UNCHANGED rvars /\ UNCHANGED kvars /\ UNCHANGED pvars /\ UNCHANGED qvars /\ UNCHANGED evars /\ UNCHANGED lvars /\ UNCHANGED hvars
    \/ RegistryListen /\ UNCHANGED <<wvars, dvars>> /\ UNCHANGED tvars /\ UNCHANGED cvars /\ UNCHANGED uvars /\ UNCHANGED gvars /\ UNCHANGED svars /\ UNCHANGED fvars /\ UNCHANGED rvars /\ UNCHANGED kvars /\ UNCHANGED pvars /\ UNCHANGED qvars /\ UNCHANGED evars /\ UNCHANGED lvars /\ UNCHANGED hvars
    \/ RegistryFail /\ UNCHANGED <<wvars, dvars>> /\ UNCHANGED tvars /\ UNCHANGED cvars /\ UNCHANGED uvars /\ UNCHANGED gvars /\ UNCHANGED svars /\ UNCHANGED fvars /\ UNCHANGED rvars /\ UNCHANGED kvars /\ UNCHANGED pvars /\ UNCHANGED qvars /\ UNCHANGED evars /\ UNCHANGED lvars /\ UNCHANGED hvars
    \/ RegistrySendError /\ UNCHANGED <<wvars, dvars>> /\ UNCHANGED tvars /\ UNCHANGED cvars /\ UNCHANGED uvars /\ UNCHANGED gvars /\ UNCHANGED svars /\ UNCHANGED fvars /\ UNCHANGED rvars /\ UNCHANGED kvars /\ UNCHANGED pvars /\ UNCHANGED qvars /\ UNCHANGED evars /\ UNCHANGED lvars /\ UNCHANGED hvars
    \/ RegistryReturnNil /\ UNCHANGED <<wvars, dvars>> /\ UNCHANGED tvars /\ UNCHANGED cvars /\ UNCHANGED uvars /\ UNCHANGED gvars /\ UNCHANGED svars /\ UNCHANGED fvars /\ UNCHANGED rvars /\ UNCHANGED kvars /\ UNCHANGED pvars /\ UNCHANGED qvars /\ UNCHANGED evars /\ UNCHANGED lvars /\ UNCHANGED hvars
    \/ RegistrySendNil /\ UNCHANGED <<wvars, dvars>> /\ UNCHANGED tvars /\ UNCHANGED cvars /\ UNCHANGED uvars /\ UNCHANGED gvars /\ UNCHANGED svars /\ UNCHANGED fvars /\ UNCHANGED rvars /\ UNCHANGED kvars /\ UNCHANGED pvars /\ UNCHANGED qvars /\ UNCHANGED evars /\ UNCHANGED lvars /\ UNCHANGED hvars
    \/ DeleteCollect /\ UNCHANGED wvars /\ UNCHANGED tvars /\ UNCHANGED cvars /\ UNCHANGED uvars /\ UNCHANGED gvars /\ UNCHANGED svars /\ UNCHANGED fvars /\ UNCHANGED rvars /\ UNCHANGED kvars /\ UNCHANGED pvars /\ UNCHANGED qvars /\ UNCHANGED evars /\ UNCHANGED lvars /\ UNCHANGED hvars
    \/ WriteDeleteMetaData /\ UNCHANGED wvars /\ UNCHANGED tvars /\ UNCHANGED cvars /\ UNCHANGED uvars /\ UNCHANGED gvars /\ UNCHANGED svars /\ UNCHANGED fvars /\ UNCHANGED rvars /\ UNCHANGED kvars /\ UNCHANGED pvars /\ UNCHANGED qvars /\ UNCHANGED evars /\ UNCHANGED lvars /\ UNCHANGED hvars
    \/ ReadDeleteMetaData /\ UNCHANGED wvars /\ UNCHANGED tvars /\ UNCHANGED cvars /\ UNCHANGED uvars /\ UNCHANGED gvars /\ UNCHANGED svars /\ UNCHANGED fvars /\ UNCHANGED rvars /\ UNCHANGED kvars /\ UNCHANGED pvars /\ UNCHANGED qvars /\ UNCHANGED evars /\ UNCHANGED lvars /\ UNCHANGED hvars
    \/ DeleteCacheBlobs /\ UNCHANGED wvars /\ UNCHANGED tvars /\ UNCHANGED cvars /\ UNCHANGED uvars /\ UNCHANGED gvars /\ UNCHANGED svars /\ UNCHANGED fvars /\ UNCHANGED rvars /\ UNCHANGED kvars /\ UNCHANGED pvars /\ UNCHANGED qvars /\ UNCHANGED evars /\ UNCHANGED lvars /\ UNCHANGED hvars
    \/ DeleteRegistryImages /\ UNCHANGED tvars /\ UNCHANGED cvars /\ UNCHANGED uvars /\ UNCHANGED gvars /\ UNCHANGED svars /\ UNCHANGED fvars /\ UNCHANGED rvars /\ UNCHANGED kvars /\ UNCHANGED pvars /\ UNCHANGED qvars /\ UNCHANGED evars /\ UNCHANGED lvars /\ UNCHANGED hvars
    \/ ~crashed /\ WorkerLoop /\ UNCHANGED <<xvars, dvars>> /\ UNCHANGED tvars /\ UNCHANGED cvars /\ UNCHANGED uvars /\ UNCHANGED gvars /\ UNCHANGED svars /\ UNCHANGED fvars /\ UNCHANGED rvars /\ UNCHANGED kvars /\ UNCHANGED pvars /\ UNCHANGED qvars /\ UNCHANGED evars /\ UNCHANGED lvars /\ UNCHANGED hvars
    \/ ~crashed /\ WorkerEnd /\ UNCHANGED <<xvars, dvars>> /\ UNCHANGED tvars /\ UNCHANGED cvars /\ UNCHANGED uvars /\ UNCHANGED gvars /\ UNCHANGED svars /\ UNCHANGED fvars /\ UNCHANGED rvars /\ UNCHANGED kvars /\ UNCHANGED pvars /\ UNCHANGED qvars /\ UNCHANGED evars /\ UNCHANGED lvars /\ UNCHANGED hvars
    \/ DeleteRegistryImagesReturned /\ UNCHANGED tvars /\ UNCHANGED cvars /\ UNCHANGED uvars /\ UNCHANGED gvars /\ UNCHANGED svars /\ UNCHANGED fvars /\ UNCHANGED rvars /\ UNCHANGED kvars /\ UNCHANGED pvars /\ UNCHANGED qvars /\ UNCHANGED evars /\ UNCHANGED lvars /\ UNCHANGED hvars
    \/ DeleteCacheBlobsCollected /\ UNCHANGED wvars /\ UNCHANGED tvars /\ UNCHANGED cvars /\ UNCHANGED uvars /\ UNCHANGED gvars /\ UNCHANGED svars /\ UNCHANGED fvars /\ UNCHANGED rvars /\ UNCHANGED kvars /\ UNCHANGED pvars /\ UNCHANGED qvars /\ UNCHANGED evars /\ UNCHANGED lvars /\ UNCHANGED hvars
    \/ DeleteRegistryImagesCollected /\ UNCHANGED wvars /\ UNCHANGED tvars /\ UNCHANGED cvars /\ UNCHANGED uvars /\ UNCHANGED gvars /\ UNCHANGED svars /\ UNCHANGED fvars /\ UNCHANGED rvars /\ UNCHANGED kvars /\ UNCHANGED pvars /\ UNCHANGED qvars /\ UNCHANGED evars /\ UNCHANGED lvars /\ UNCHANGED hvars

SpecDelete == InitDelete /\ [][NextDelete]_vars

-----------------------------------------------------------------------------
(* Specification of one RoundTrip *)

\* Endpoints a registries.conf may give, as FindMirrors stores them
EndpointPool ==
    {[Endpoint |-> <<"e1.io", "/m1", "/repo">>, Secure |-> TRUE],
     [Endpoint |-> <<"e2.io", "/m2", "/repo">>, Secure |-> FALSE],
     [Endpoint |-> <<"%zz">>, Secure |-> TRUE]}

OriginPool ==
    {<<"quay.io", "/ns", "/repo">>, <<"https:", "//", "quay.io", "/ns", "/repo">>}

MirrorPool ==
    [OriginUrl : OriginPool,
     MirrorEndpoints : UNION {[1..n -> EndpointPool] : n \in 0..MaxEndpoints}]

RequestPool ==
    {[Scheme |-> "https", Host |-> <<"quay.io">>,
      Path |-> <<"/v2", "/ns", "/repo", "/manifests">>],
     [Scheme |-> "http", Host |-> <<"quay.io">>,
      Path |-> <<"/v2", "/ns", "/repo", "/manifests">>],
     [Scheme |-> "https", Host |-> <<"other.io">>, Path |-> <<"/v2", "/manifests">>]}

InitTransport ==
    /\ BatchNew
    /\ collectorSchema = [AllImages |-> <<>>]
    /\ opts = [Mode |-> "", Function |-> CopyMode]
    /\ ExecutorIdle
    /\ DeleteIdle
    /\ mirrors \in UNION {[1..n -> MirrorPool] : n \in 0..MaxMirrors}
    /\ origURL \in RequestPool
    /\ TransportNew
    /\ CmdIdle
    /\ UnarchiveIdle
    /\ GatherIdle
    /\ SelectIdle
    /\ FindFBCIdle
    /\ RegistriesDIdle
    /\ DeleteCmdIdle
    /\ PrepareIdle
    /\ GenerateIdle
    /\ CallsIdle
    /\ ReleaseCollectorIdle
    /\ OperatorCollectorIdle

NextTransport ==
    \/ RoundTripMirror /\ UNCHANGED <<wvars, xvars, dvars>> /\ UNCHANGED cvars /\ UNCHANGED uvars /\ UNCHANGED gvars /\ UNCHANGED svars /\ UNCHANGED fvars /\ UNCHANGED rvars /\ UNCHANGED kvars /\ UNCHANGED pvars /\ UNCHANGED qvars /\ UNCHANGED evars /\ UNCHANGED lvars /\ UNCHANGED hvars
    \/ RoundTripEndpoint /\ UNCHANGED <<wvars, xvars, dvars>> /\ UNCHANGED cvars /\ UNCHANGED uvars /\ UNCHANGED gvars /\ UNCHANGED svars /\ UNCHANGED fvars /\ UNCHANGED rvars /\ UNCHANGED kvars /\ UNCHANGED pvars /\ UNCHANGED qvars /\ UNCHANGED evars /\ UNCHANGED lvars /\ UNCHANGED hvars
    \/ RoundTripEndpointsDone /\ UNCHANGED <<wvars, xvars, dvars>> /\ UNCHANGED cvars /\ UNCHANGED uvars /\ UNCHANGED gvars /\ UNCHANGED svars /\ UNCHANGED fvars /\ UNCHANGED rvars /\ UNCHANGED kvars /\ UNCHANGED pvars /\ UNCHANGED qvars /\ UNCHANGED evars /\ UNCHANGED lvars /\ UNCHANGED hvars
    \/ RoundTripDirect /\ UNCHANGED <<wvars, xvars, dvars>> /\ UNCHANGED cvars /\ UNCHANGED uvars /\ UNCHANGED gvars /\ UNCHANGED svars /\ UNCHANGED fvars /\ UNCHANGED rvars /\ UNCHANGED kvars /\ UNCHANGED pvars /\ UNCHANGED qvars /\ UNCHANGED evars /\ UNCHANGED lvars /\ UNCHANGED hvars

SpecTransport == InitTransport /\ [][NextTransport]_vars

-----------------------------------------------------------------------------
(* Specification of one invocation of the mirror command *)

CmdLines ==
    [Dest : {<<fileProtocol, "/out">>, <<dockerProtocol, "registry.example.com">>,
             <<"oci://", "/out">>, <<dockerProtocol, "registry.example.com", "/", fileProtocol>>,
             <<fileProtocol, "/out", "/", dockerProtocol>>},
     From : {<<>>, <<fileProtocol, "/out">>, <<"/out">>},
     ConfigPath : {<<>>, <<"isc.yaml">>},
     SinceString : {<<>>, <<"2024", "-", "01", "-", "31">>, <<"31", "/", "01", "/", "2024">>,
                    <<"2024", "-", "02", "-", "31">>}]

InitCmd ==
    /\ BatchNew
    /\ collectorSchema = [AllImages |-> <<>>]
    /\ opts = [Mode |-> "", Function |-> CopyMode]
    /\ ExecutorIdle
    /\ DeleteIdle
    /\ TransportIdle
    /\ cli \in CmdLines
    /\ CmdNew
    /\ UnarchiveIdle
    /\ GatherIdle
    /\ SelectIdle
    /\ FindFBCIdle
    /\ RegistriesDIdle
    /\ DeleteCmdIdle
    /\ PrepareIdle
    /\ GenerateIdle
    /\ CallsIdle
    /\ ReleaseCollectorIdle
    /\ OperatorCollectorIdle

NextCmd ==
    \/ CmdValidate /\ UNCHANGED <<wvars, xvars, dvars, tvars>> /\ UNCHANGED uvars /\ UNCHANGED gvars /\ UNCHANGED svars /\ UNCHANGED fvars /\ UNCHANGED rvars /\ UNCHANGED kvars /\ UNCHANGED pvars /\ UNCHANGED qvars /\ UNCHANGED evars /\ UNCHANGED lvars /\ UNCHANGED hvars
    \/ CmdComplete /\ UNCHANGED <<wvars, xvars, dvars, tvars>> /\ UNCHANGED uvars /\ UNCHANGED gvars /\ UNCHANGED svars /\ UNCHANGED fvars /\ UNCHANGED rvars /\ UNCHANGED kvars /\ UNCHANGED pvars /\ UNCHANGED qvars /\ UNCHANGED evars /\ UNCHANGED lvars /\ UNCHANGED hvars
    \/ CmdSetupLocalStorage /\ UNCHANGED <<wvars, xvars, dvars, tvars>> /\ UNCHANGED uvars /\ UNCHANGED gvars /\ UNCHANGED svars /\ UNCHANGED fvars /\ UNCHANGED rvars /\ UNCHANGED kvars /\ UNCHANGED pvars /\ UNCHANGED qvars /\ UNCHANGED evars /\ UNCHANGED lvars /\ UNCHANGED hvars
    \/ CmdRun /\ UNCHANGED <<wvars, xvars, dvars, tvars>> /\ UNCHANGED uvars /\ UNCHANGED gvars /\ UNCHANGED svars /\ UNCHANGED fvars /\ UNCHANGED rvars /\ UNCHANGED kvars /\ UNCHANGED pvars /\ UNCHANGED qvars /\ UNCHANGED evars /\ UNCHANGED lvars /\ UNCHANGED hvars

SpecCmd == InitCmd /\ [][NextCmd]_vars

-----------------------------------------------------------------------------
(* Specification of one extraction of an archive *)

MaxEntries == 2

MaxChunks == 2

\* Entries of a tar chunk
EntryPool ==
    {[Name |-> <<"docker", "registry", "v2", "blobs", "b1">>, Typeflag |-> TypeReg,
      Content |-> <<"x">>],
     [Name |-> <<"working-dir", "f1">>, Typeflag |-> TypeReg, Content |-> <<"y", "z">>],
     [Name |-> <<"isc.yaml">>, Typeflag |-> TypeReg, Content |-> <<"c">>],
     [Name |-> <<"extra", "working-dir", "f2">>, Typeflag |-> TypeReg, Content |-> <<"e">>],
     [Name |-> <<"working-dir", "sub">>, Typeflag |-> TypeDir, Content |-> <<>>],
     [Name |-> <<"working-dir", "link">>, Typeflag |-> TypeSymlink, Content |-> <<>>]}

\* Entries of the chunks after the first
LaterEntryPool ==
    {[Name |-> <<"docker", "registry", "v2", "blobs", "b2">>, Typeflag |-> TypeReg,
      Content |-> <<"w">>],
     [Name |-> <<"working-dir", "f3">>, Typeflag |-> TypeReg, Content |-> <<"v">>]}

SeqsUpTo(S, n) == UNION {[1..k -> S] : k \in 0..n}

Archives ==
    {<<first>> \o later : first \in SeqsUpTo(EntryPool, MaxEntries),
                          later \in SeqsUpTo({<<e>> : e \in LaterEntryPool}, MaxChunks - 1)}

\* What an earlier extraction left on the disk
EarlierFiles ==
    {{},
     {[path |-> <<"cache", "docker", "registry", "v2", "blobs", "b1">>,
       content |-> <<"o", "l", "d">>]},
     {[path |-> <<"out", "working-dir", "f1">>, content |-> <<"o", "l", "d">>]}}

InitUnarchive ==
    /\ BatchNew
    /\ collectorSchema = [AllImages |-> <<>>]
    /\ opts = [Mode |-> "", Function |-> CopyMode]
    /\ ExecutorIdle
    /\ DeleteIdle
    /\ TransportIdle
    /\ CmdIdle
    /\ \E a \in Archives :
          unarch = [workingDir |-> <<"out", "working-dir">>, cacheDir |-> <<"cache">>,
                    chunks |-> a]
    /\ files \in EarlierFiles
    /\ UnarchiveNew
    /\ GatherIdle
    /\ SelectIdle
    /\ FindFBCIdle
    /\ RegistriesDIdle
    /\ DeleteCmdIdle
    /\ PrepareIdle
    /\ GenerateIdle
    /\ CallsIdle
    /\ ReleaseCollectorIdle
    /\ OperatorCollectorIdle

NextUnarchive ==
    \/ NewArchiveExtractor /\ UNCHANGED <<wvars, xvars, dvars, tvars, cvars>> /\ UNCHANGED gvars /\ UNCHANGED svars /\ UNCHANGED fvars /\ UNCHANGED rvars /\ UNCHANGED kvars /\ UNCHANGED pvars /\ UNCHANGED qvars /\ UNCHANGED evars /\ UNCHANGED lvars /\ UNCHANGED hvars
    \/ UnarchiveMkdirs /\ UNCHANGED <<wvars, xvars, dvars, tvars, cvars>> /\ UNCHANGED gvars /\ UNCHANGED svars /\ UNCHANGED fvars /\ UNCHANGED rvars /\ UNCHANGED kvars /\ UNCHANGED pvars /\ UNCHANGED qvars /\ UNCHANGED evars /\ UNCHANGED lvars /\ UNCHANGED hvars
    \/ UnarchiveEntry /\ UNCHANGED <<wvars, xvars, dvars, tvars, cvars>> /\ UNCHANGED gvars /\ UNCHANGED svars /\ UNCHANGED fvars /\ UNCHANGED rvars /\ UNCHANGED kvars /\ UNCHANGED pvars /\ UNCHANGED qvars /\ UNCHANGED evars /\ UNCHANGED lvars /\ UNCHANGED hvars
    \/ UnarchiveEOF /\ UNCHANGED <<wvars, xvars, dvars, tvars, cvars>> /\ UNCHANGED gvars /\ UNCHANGED svars /\ UNCHANGED fvars /\ UNCHANGED rvars /\ UNCHANGED kvars /\ UNCHANGED pvars /\ UNCHANGED qvars /\ UNCHANGED evars /\ UNCHANGED lvars /\ UNCHANGED hvars

SpecUnarchive == InitUnarchive /\ [][NextUnarchive]_vars

-----------------------------------------------------------------------------
(* Specification of one GatherBlobs call on an image source *)

MaxLayers == 2

\* What an image manifest refers to: its layers and its config
ImageShapes ==
    [Layers : UNION {[1..k -> {"sha256:l1", "sha256:l2"}] : k \in 0..MaxLayers},
     Config : {"sha256:c1", "sha256:c2"}]

\* A descriptor of an index or of a manifest list
Descr(digest, mime, embedded) ==
    [Digest |-> digest, MediaType |-> mime, Embedded |-> embedded]

\* An image source: an OCI manifest m1 and a Docker manifest m2 of the given
\* shapes, a manifest list ml and two OCI indexes of both (ixe embeds the
\* manifests, ix does not), a list ll of ml and m1, a list lm with a child that
\* the source does not have
StoreOf(s1, s2) ==
    LET m1 == Descr("sha256:m1", MediaTypeImageManifest, FALSE)
        m2 == Descr("sha256:m2", DockerV2Schema2MediaType, FALSE)
        both == <<m1, m2>>
        listOf(ms) == [mime |-> DockerV2ListMediaType, Layers |-> <<>>, Config |-> "",
                       Manifests |-> ms]
        indexOf(ms) == [mime |-> MediaTypeImageIndex, Layers |-> <<>>, Config |-> "",
                        Manifests |-> ms]
    IN [d \in {"sha256:m1", "sha256:m2", "sha256:ml", "sha256:ix", "sha256:ixe",
               "sha256:ll", "sha256:lm"} |->
         CASE d = "sha256:m1" -> [mime |-> MediaTypeImageManifest, Layers |-> s1.Layers,
                                  Config |-> s1.Config, Manifests |-> <<>>]
           [] d = "sha256:m2" -> [mime |-> DockerV2Schema2MediaType, Layers |-> s2.Layers,
                                  Config |-> s2.Config, Manifests |-> <<>>]
           [] d = "sha256:ml" -> listOf(both)
           [] d = "sha256:ix" -> indexOf(both)
           [] d = "sha256:ixe" -> indexOf(<<[m1 EXCEPT !.Embedded = TRUE],
                                            [m2 EXCEPT !.Embedded = TRUE]>>)
           [] d = "sha256:ll" -> listOf(<<Descr("sha256:ml", DockerV2ListMediaType, FALSE), m1>>)
           [] d = "sha256:lm" -> listOf(<<m1, Descr("sha256:gone", MediaTypeImageManifest,
                                                    FALSE)>>)]

InitGather ==
    /\ BatchNew
    /\ collectorSchema = [AllImages |-> <<>>]
    /\ opts = [Mode |-> "", Function |-> CopyMode]
    /\ ExecutorIdle
    /\ DeleteIdle
    /\ TransportIdle
    /\ CmdIdle
    /\ UnarchiveIdle
    /\ \E s1 \in ImageShapes, s2 \in ImageShapes : gstore = StoreOf(s1, s2)
    /\ gref \in DOMAIN gstore \cup {"sha256:gone"}
    /\ GatherNew
    /\ SelectIdle
    /\ FindFBCIdle
    /\ RegistriesDIdle
    /\ DeleteCmdIdle
    /\ PrepareIdle
    /\ GenerateIdle
    /\ CallsIdle
    /\ ReleaseCollectorIdle
    /\ OperatorCollectorIdle

NextGather ==
    \/ GatherBlobsCall /\ UNCHANGED <<wvars, xvars, dvars, tvars, cvars, uvars>> /\ UNCHANGED svars /\ UNCHANGED fvars /\ UNCHANGED rvars /\ UNCHANGED kvars /\ UNCHANGED pvars /\ UNCHANGED qvars /\ UNCHANGED evars /\ UNCHANGED lvars /\ UNCHANGED hvars

SpecGather == InitGather /\ [][NextGather]_vars

-----------------------------------------------------------------------------
(* Specification of one getRelatedImages call on a catalog *)

MaxBundles == 3

V030 == <<"0", ".", "3", ".", "0">>

V031 == <<"0", ".", "3", ".", "1">>

V040 == <<"0", ".", "4", ".", "0">>

V040alpha == <<"0", ".", "4", ".", "0", "-", "alpha">>

V0100 == <<"0", ".", "10", ".", "0">>

\* The bundle of a package at a version, with its operator image
BundleOf(pkg, tag, version, operatorName, operatorImage) ==
    [Name |-> tag, Package |-> pkg, Image |-> tag, Version |-> version,
     HasPackageProperty |-> version # <<>>,
     RelatedImages |-> <<[Name |-> operatorName, Image |-> operatorImage]>>]

\* Bundles of the packages foo and bar; bar's bundle has the operator image
\* of foo 0.3.0 under another name, one bundle of foo has no version
BundlePool ==
    {BundleOf("foo", "foo-bundle-v0.3.0", V030, "operator", "op@sha256:7e1e"),
     BundleOf("foo", "foo-bundle-v0.3.1", V031, "operator", "op@sha256:00ae"),
     BundleOf("foo", "foo-bundle-v0.4.0-alpha", V040alpha, "operator", "op@sha256:00ae"),
     BundleOf("foo", "foo-bundle-v0.4.0", V040, "operator", "op@sha256:40aa"),
     BundleOf("foo", "foo-bundle-v0.10.0", V0100, "operator", "op@sha256:10aa"),
     BundleOf("bar", "bar-bundle-v0.3.0", V030, "manager", "op@sha256:7e1e"),
     BundleOf("foo", "foo-bundle-none", <<>>, "operator", "op@sha256:0000")}

\* The catalog of a list of bundles: each package has the channel stable, in
\* which a bundle replaces the bundle of the package before it in the list
CatalogOf(bundles) ==
    LET names == {bundles[k].Package : k \in 1..Len(bundles)}
        ofPkg(p) == SelectSeq(bundles, LAMBDA b : b.Package = p)
        entries(p) == [k \in 1..Len(ofPkg(p)) |->
                          [Name |-> ofPkg(p)[k].Name,
                           Replaces |-> IF k = 1 THEN "" ELSE ofPkg(p)[k - 1].Name]]
        order == <<"bar", "foo">>
        present == SelectSeq(order, LAMBDA p : p \in names)
    IN [Packages |-> present,
        Channels |-> [k \in 1..Len(present) |->
                         [Name |-> "stable", Package |-> present[k],
                          Entries |-> entries(present[k])]],
        Bundles |-> bundles]

\* Lists of distinct bundles
BundleLists ==
    {bs \in UNION {[1..n -> BundlePool] : n \in 0..MaxBundles} :
        \A i, j \in 1..Len(bs) : i # j => bs[i] # bs[j]}

\* The IncludePackage entries given for the operator
PackageLists ==
    {<<>>}
    \cup {<<[Name |-> n, MinVersion |-> lo, MaxVersion |-> hi, Channels |-> <<>>]>> :
             n \in {"foo"}, lo \in {<<>>, V030, V031, V040alpha, <<"v0", ".", "3", ".", "0">>},
             hi \in {<<>>, V031, V040, <<"0", ".", "3">>}}
    \cup {<<[Name |-> "foo", MinVersion |-> <<>>, MaxVersion |-> <<>>,
             Channels |-> <<[Name |-> "stable", MinVersion |-> V030, MaxVersion |-> V031]>>]>>,
          <<[Name |-> "bar", MinVersion |-> <<>>, MaxVersion |-> <<>>, Channels |-> <<>>]>>,
          <<[Name |-> "bar", MinVersion |-> <<>>, MaxVersion |-> <<>>, Channels |-> <<>>],
            [Name |-> "foo", MinVersion |-> <<>>, MaxVersion |-> V031, Channels |-> <<>>]>>,
          <<[Name |-> "foo", MinVersion |-> V040, MaxVersion |-> <<>>, Channels |-> <<>>],
            [Name |-> "foo", MinVersion |-> <<>>, MaxVersion |-> V030, Channels |-> <<>>]>>}

InitSelect ==
    /\ BatchNew
    /\ collectorSchema = [AllImages |-> <<>>]
    /\ opts = [Mode |-> "", Function |-> CopyMode]
    /\ ExecutorIdle
    /\ DeleteIdle
    /\ TransportIdle
    /\ CmdIdle
    /\ UnarchiveIdle
    /\ GatherIdle
    /\ \E bs \in BundleLists : fbc = CatalogOf(bs)
    /\ packages \in PackageLists
    /\ SelectNew
    /\ FindFBCIdle
    /\ RegistriesDIdle
    /\ DeleteCmdIdle
    /\ PrepareIdle
    /\ GenerateIdle
    /\ CallsIdle
    /\ ReleaseCollectorIdle
    /\ OperatorCollectorIdle

NextSelect ==
    \/ GetRelatedImagesCall /\ UNCHANGED <<wvars, xvars, dvars, tvars, cvars, uvars, gvars>> /\ UNCHANGED fvars /\ UNCHANGED rvars /\ UNCHANGED kvars /\ UNCHANGED pvars /\ UNCHANGED qvars /\ UNCHANGED evars /\ UNCHANGED lvars /\ UNCHANGED hvars

SpecSelect == InitSelect /\ [][NextSelect]_vars

-----------------------------------------------------------------------------
(* Specification of one findFBCConfig call on a catalog image *)

MaxFbcLayers == 2

\* Layers of a catalog image whose label points to configs
LayerPool ==
    {<<[Name |-> <<"configs">>, Typeflag |-> TypeDir],
       [Name |-> <<"configs", "foo">>, Typeflag |-> TypeDir],
       [Name |-> <<"configs", "foo", "index.yaml">>, Typeflag |-> TypeReg]>>,
     <<[Name |-> <<"configs">>, Typeflag |-> TypeDir],
       [Name |-> <<"configs", "foo">>, Typeflag |-> TypeDir]>>,
     <<[Name |-> <<"configs">>, Typeflag |-> TypeDir]>>,
     <<[Name |-> <<"configs", "index.yaml">>, Typeflag |-> TypeReg]>>,
     <<[Name |-> <<"etc">>, Typeflag |-> TypeDir],
       [Name |-> <<"etc", "passwd">>, Typeflag |-> TypeReg]>>,
     <<[Name |-> <<"configs">>, Typeflag |-> TypeDir],
       [Name |-> <<"configs", "link">>, Typeflag |-> TypeSymlink]>>}

InitFindFBC ==
    /\ BatchNew
    /\ collectorSchema = [AllImages |-> <<>>]
    /\ opts = [Mode |-> "", Function |-> CopyMode]
    /\ ExecutorIdle
    /\ DeleteIdle
    /\ TransportIdle
    /\ CmdIdle
    /\ UnarchiveIdle
    /\ GatherIdle
    /\ SelectIdle
    /\ \E ls \in UNION {[1..n -> LayerPool] : n \in 0..MaxFbcLayers} :
          catalog = [layers |-> ls, cfgDirName |-> <<"configs">>]
    /\ ftree \in {[dirs |-> {}, files |-> {}], [dirs |-> {<<>>}, files |-> {}]}
    /\ FindFBCNew
    /\ RegistriesDIdle
    /\ DeleteCmdIdle
    /\ PrepareIdle
    /\ GenerateIdle
    /\ CallsIdle
    /\ ReleaseCollectorIdle
    /\ OperatorCollectorIdle

NextFindFBC ==
    \/ FindFBCStart /\ UNCHANGED <<wvars, xvars, dvars, tvars, cvars, uvars, gvars, svars>> /\ UNCHANGED rvars /\ UNCHANGED kvars /\ UNCHANGED pvars /\ UNCHANGED qvars /\ UNCHANGED evars /\ UNCHANGED lvars /\ UNCHANGED hvars
    \/ FindFBCLayer /\ UNCHANGED <<wvars, xvars, dvars, tvars, cvars, uvars, gvars, svars>> /\ UNCHANGED rvars /\ UNCHANGED kvars /\ UNCHANGED pvars /\ UNCHANGED qvars /\ UNCHANGED evars /\ UNCHANGED lvars /\ UNCHANGED hvars
    \/ FindFBCEnd /\ UNCHANGED <<wvars, xvars, dvars, tvars, cvars, uvars, gvars, svars>> /\ UNCHANGED rvars /\ UNCHANGED kvars /\ UNCHANGED pvars /\ UNCHANGED qvars /\ UNCHANGED evars /\ UNCHANGED lvars /\ UNCHANGED hvars

SpecFindFBC == InitFindFBC /\ [][NextFindFBC]_vars

-----------------------------------------------------------------------------
(* Specification of one registries.d step *)

\* A registry URL
RegistryURL(scheme, rest) == [scheme |-> scheme, rest |-> rest]

\* The cache registry, with and without the docker protocol
CacheURLs ==
    {RegistryURL(dockerProtocol, <<"localhost:55000">>), RegistryURL("", <<"localhost:55000">>)}

\* The destinations: registries with and without protocol and path, and disk
DestinationURLs ==
    {RegistryURL(dockerProtocol, <<"mymirror.com">>), RegistryURL("", <<"mymirror.com">>),
     RegistryURL(dockerProtocol, <<"mymirror.com", "/", "ns">>),
     RegistryURL(fileProtocol, <<"/tmp/my-archive">>),
     RegistryURL(dirProtocol, <<"/tmp/dir">>),
     RegistryURL(ociProtocol, <<"/tmp/test">>),
     RegistryURL("oci:", <<"/tmp/test">>)}

\* What the copy of the user's registries.d left in the working directory
CopiedRegistriesD ==
    {{},
     {[name |-> <<"mymirror.com", ".yaml">>, docker |-> {}]},
     {[name |-> <<"localhost:55000", ".yaml">>, docker |-> {<<"localhost:55000">>}]},
     {[name |-> <<"registry.redhat.io", ".yaml">>, docker |-> {}]}}

InitRegistriesD ==
    /\ BatchNew
    /\ collectorSchema = [AllImages |-> <<>>]
    /\ opts = [Mode |-> "", Function |-> CopyMode]
    /\ ExecutorIdle
    /\ DeleteIdle
    /\ TransportIdle
    /\ CmdIdle
    /\ UnarchiveIdle
    /\ GatherIdle
    /\ SelectIdle
    /\ FindFBCIdle
    /\ \E src \in CacheURLs, dest \in DestinationURLs, def \in {"registriesd.go", "part_004"} :
          rin = [registries |-> <<src, dest>>, Definition |-> def]
    /\ regdir \in CopiedRegistriesD
    /\ RegistriesDNew
    /\ DeleteCmdIdle
    /\ PrepareIdle
    /\ GenerateIdle
    /\ CallsIdle
    /\ ReleaseCollectorIdle
    /\ OperatorCollectorIdle

NextRegistriesD ==
    \/ AddMandatoryRegistriesCall /\ UNCHANGED kvars /\ UNCHANGED pvars /\ UNCHANGED qvars /\ UNCHANGED evars /\ UNCHANGED lvars /\ UNCHANGED hvars
       /\ UNCHANGED <<wvars, xvars, dvars, tvars, cvars, uvars, gvars, svars, fvars>>

SpecRegistriesD == InitRegistriesD /\ [][NextRegistriesD]_vars

-----------------------------------------------------------------------------
(* Specification of one run of the delete command *)

\* Values of --source
DeleteSources == {<<>>, <<fileProtocol, "test">>, <<"test">>}

\* Values of --destination
DeleteDestinations ==
    {<<>>, <<dockerProtocol, "test">>, <<"test">>, <<"x">>, <<"test", "/", dockerProtocol>>}

\* Values of --config, --delete-id and --delete-yaml-file
FlagValues == {<<>>, <<"test">>}

\* The kinds of file --config may name
ConfigKinds ==
    {"missing", "invalid", ImageSetConfigurationKind, DeleteImageSetConfigurationKind}

InitDeleteCmd ==
    /\ BatchNew
    /\ collectorSchema = [AllImages |-> <<>>]
    /\ opts = [Mode |-> "", Function |-> CopyMode]
    /\ ExecutorIdle
    /\ DeleteIdle
    /\ TransportIdle
    /\ CmdIdle
    /\ UnarchiveIdle
    /\ GatherIdle
    /\ SelectIdle
    /\ FindFBCIdle
    /\ RegistriesDIdle
    /\ \E s \in DeleteSources, d \in DeleteDestinations, g \in BOOLEAN,
          c \in FlagValues, i \in FlagValues, y \in FlagValues :
          dcli = [DeleteSource |-> s, DeleteGenerate |-> g, ConfigPath |-> c,
                  DeleteID |-> i, DeleteYaml |-> y, DeleteDestination |-> d]
    /\ \E e \in BOOLEAN, k \in ConfigKinds : dfiles = [yamlExists |-> e, configKind |-> k]
    /\ DeleteCmdNew
    /\ PrepareIdle
    /\ GenerateIdle
    /\ CallsIdle
    /\ ReleaseCollectorIdle
    /\ OperatorCollectorIdle

NextDeleteCmd ==
    \/ DeleteCmdValidate /\ UNCHANGED pvars /\ UNCHANGED qvars /\ UNCHANGED evars /\ UNCHANGED lvars /\ UNCHANGED hvars
       /\ UNCHANGED <<wvars, xvars, dvars, tvars, cvars, uvars, gvars, svars, fvars, rvars>>
    \/ DeleteCmdComplete /\ UNCHANGED pvars /\ UNCHANGED qvars /\ UNCHANGED evars /\ UNCHANGED lvars /\ UNCHANGED hvars
       /\ UNCHANGED <<wvars, xvars, dvars, tvars, cvars, uvars, gvars, svars, fvars, rvars>>
    \/ DeleteCmdSetupLocalStorage /\ UNCHANGED pvars /\ UNCHANGED qvars /\ UNCHANGED evars /\ UNCHANGED lvars /\ UNCHANGED hvars
       /\ UNCHANGED <<wvars, xvars, dvars, tvars, cvars, uvars, gvars, svars, fvars, rvars>>
    \/ DeleteCmdRunDelete /\ UNCHANGED pvars /\ UNCHANGED qvars /\ UNCHANGED evars /\ UNCHANGED lvars /\ UNCHANGED hvars
       /\ UNCHANGED <<wvars, xvars, dvars, tvars, cvars, uvars, gvars, svars, fvars, rvars>>

SpecDeleteCmd == InitDeleteCmd /\ [][NextDeleteCmd]_vars

-----------------------------------------------------------------------------
(* Specification of one call of RunPrepare *)

InitPrepare ==
    /\ BatchNew
    /\ collectorSchema = [AllImages |-> <<>>]
    /\ opts = [Mode |-> "", Function |-> CopyMode]
    /\ ExecutorIdle
    /\ DeleteIdle
    /\ TransportIdle
    /\ CmdIdle
    /\ UnarchiveIdle
    /\ GatherIdle
    /\ SelectIdle
    /\ FindFBCIdle
    /\ RegistriesDIdle
    /\ DeleteCmdIdle
    /\ PrepareNew
    /\ GenerateIdle
    /\ CallsIdle
    /\ ReleaseCollectorIdle
    /\ OperatorCollectorIdle

NextPrepare ==
    \/ PrepareSetup /\ UNCHANGED qvars /\ UNCHANGED evars /\ UNCHANGED lvars /\ UNCHANGED hvars
       /\ UNCHANGED <<wvars, xvars, dvars, tvars, cvars, uvars, gvars, svars, fvars, rvars, kvars>>
    \/ PrepareCollect /\ UNCHANGED qvars /\ UNCHANGED evars /\ UNCHANGED lvars /\ UNCHANGED hvars
       /\ UNCHANGED <<wvars, xvars, dvars, tvars, cvars, uvars, gvars, svars, fvars, rvars, kvars>>
    \/ PrepareCheck /\ UNCHANGED qvars /\ UNCHANGED evars /\ UNCHANGED lvars /\ UNCHANGED hvars
       /\ UNCHANGED <<wvars, xvars, dvars, tvars, cvars, uvars, gvars, svars, fvars, rvars, kvars>>
    \/ PrepareFinish /\ UNCHANGED qvars /\ UNCHANGED evars /\ UNCHANGED lvars /\ UNCHANGED hvars
       /\ UNCHANGED <<wvars, xvars, dvars, tvars, cvars, uvars, gvars, svars, fvars, rvars, kvars>>

SpecPrepare == InitPrepare /\ [][NextPrepare]_vars

-----------------------------------------------------------------------------
(* Specification of the generate branch of one RunDelete *)

InitGenerate ==
    /\ BatchNew
    /\ collectorSchema = [AllImages |-> <<>>]
    /\ opts = [Mode |-> "", Function |-> CopyMode]
    /\ ExecutorIdle
    /\ DeleteIdle
    /\ TransportIdle
    /\ CmdIdle
    /\ UnarchiveIdle
    /\ GatherIdle
    /\ SelectIdle
    /\ FindFBCIdle
    /\ RegistriesDIdle
    /\ DeleteCmdIdle
    /\ PrepareIdle
    /\ \E n \in 0..MaxFolders : gdfolders = SubSeq(ReleaseFolders, 1, n)
    /\ GenerateNew
    /\ CallsIdle
    /\ ReleaseCollectorIdle
    /\ OperatorCollectorIdle

NextGenerate ==
    \/ GenerateIdentify /\ UNCHANGED evars /\ UNCHANGED lvars /\ UNCHANGED hvars
       /\ UNCHANGED <<wvars, xvars, dvars, tvars, cvars, uvars, gvars, svars, fvars, rvars, kvars, pvars>>
    \/ GenerateCollectRelease /\ UNCHANGED evars /\ UNCHANGED lvars /\ UNCHANGED hvars
       /\ UNCHANGED <<wvars, xvars, dvars, tvars, cvars, uvars, gvars, svars, fvars, rvars, kvars, pvars>>
    \/ GenerateCollectOthers /\ UNCHANGED evars /\ UNCHANGED lvars /\ UNCHANGED hvars
       /\ UNCHANGED <<wvars, xvars, dvars, tvars, cvars, uvars, gvars, svars, fvars, rvars, kvars, pvars>>
    \/ GenerateWrite /\ UNCHANGED evars /\ UNCHANGED lvars /\ UNCHANGED hvars
       /\ UNCHANGED <<wvars, xvars, dvars, tvars, cvars, uvars, gvars, svars, fvars, rvars, kvars, pvars>>

SpecGenerate == InitGenerate /\ [][NextGenerate]_vars

-----------------------------------------------------------------------------
(* Specification of the calls of Mirror.Run in one Batch.Worker call *)

InitCalls ==
    /\ BatchNew
    /\ \E types \in ImageLists : collectorSchema = SchemaOf(types)
    /\ opts \in WorkerOpts
    /\ ExecutorIdle
    /\ DeleteIdle
    /\ TransportIdle
    /\ CmdIdle
    /\ UnarchiveIdle
    /\ GatherIdle
    /\ SelectIdle
    /\ FindFBCIdle
    /\ RegistriesDIdle
    /\ DeleteCmdIdle
    /\ PrepareIdle
    /\ GenerateIdle
    /\ CallsNew
    /\ ReleaseCollectorIdle
    /\ OperatorCollectorIdle

NextCalls ==
    \/ CallsNext /\ UNCHANGED lvars /\ UNCHANGED hvars
       /\ UNCHANGED <<wvars, xvars, dvars, tvars, cvars, uvars, gvars, svars, fvars, rvars, kvars, pvars, qvars>>
    \/ CallsReturn /\ UNCHANGED lvars /\ UNCHANGED hvars
       /\ UNCHANGED <<wvars, xvars, dvars, tvars, cvars, uvars, gvars, svars, fvars, rvars, kvars, pvars, qvars>>
    \/ CallsEnd /\ UNCHANGED lvars /\ UNCHANGED hvars
       /\ UNCHANGED <<wvars, xvars, dvars, tvars, cvars, uvars, gvars, svars, fvars, rvars, kvars, pvars, qvars>>

SpecCalls == InitCalls /\ [][NextCalls]_vars

-----------------------------------------------------------------------------
(* Specification of the release collector over MaxRuns runs *)

InitReleaseCollector ==
    /\ BatchNew
    /\ collectorSchema = [AllImages |-> <<>>]
    /\ opts = [Mode |-> "", Function |-> CopyMode]
    /\ ExecutorIdle
    /\ DeleteIdle
    /\ TransportIdle
    /\ CmdIdle
    /\ UnarchiveIdle
    /\ GatherIdle
    /\ SelectIdle
    /\ FindFBCIdle
    /\ RegistriesDIdle
    /\ DeleteCmdIdle
    /\ PrepareIdle
    /\ GenerateIdle
    /\ CallsIdle
    /\ rldisk \in [1..MaxPayloads -> {"absent", "image"}]
    /\ ReleaseCollectorNew
    /\ OperatorCollectorIdle

NextReleaseCollector ==
    \/ ReleaseCollectorTurn /\ UNCHANGED hvars
       /\ UNCHANGED <<wvars, xvars, dvars, tvars, cvars, uvars, gvars, svars, fvars, rvars, kvars, pvars, qvars, evars>>
    \/ ReleaseCollectorEnd /\ UNCHANGED hvars
       /\ UNCHANGED <<wvars, xvars, dvars, tvars, cvars, uvars, gvars, svars, fvars, rvars, kvars, pvars, qvars, evars>>
    \/ ReleaseCollectorRunAgain /\ UNCHANGED hvars
       /\ UNCHANGED <<wvars, xvars, dvars, tvars, cvars, uvars, gvars, svars, fvars, rvars, kvars, pvars, qvars, evars>>

SpecReleaseCollector == InitReleaseCollector /\ [][NextReleaseCollector]_vars

-----------------------------------------------------------------------------
(* Specification of one OperatorImageCollector call *)

\* The lists of operators of a configuration: MaxCatalogs catalogs at most
OperatorLists ==
    {ops \in UNION {[1..n -> {CatalogNames[k] : k \in 1..Len(CatalogNames)}] : n \in 0..MaxCatalogs} :
        \A i, j \in 1..Len(ops) : i # j => ops[i] # ops[j]}

InitOperatorCollector ==
    /\ BatchNew
    /\ collectorSchema = [AllImages |-> <<>>]
    /\ opts = [Mode |-> "", Function |-> CopyMode]
    /\ ExecutorIdle
    /\ DeleteIdle
    /\ TransportIdle
    /\ CmdIdle
    /\ UnarchiveIdle
    /\ GatherIdle
    /\ SelectIdle
    /\ FindFBCIdle
    /\ RegistriesDIdle
    /\ DeleteCmdIdle
    /\ PrepareIdle
    /\ GenerateIdle
    /\ CallsIdle
    /\ ReleaseCollectorIdle
    /\ \E ops \in OperatorLists, m \in {MirrorToDisk, DiskToMirror} :
          ocfg = [Operators |-> ops, Mode |-> m]
    /\ OperatorCollectorNew

NextOperatorCollector ==
    \/ OperatorCollectorTurn
       /\ UNCHANGED <<wvars, xvars, dvars, tvars, cvars, uvars, gvars, svars, fvars, rvars, kvars, pvars, qvars, evars, lvars>>
    \/ OperatorCollectorEnd
       /\ UNCHANGED <<wvars, xvars, dvars, tvars, cvars, uvars, gvars, svars, fvars, rvars, kvars, pvars, qvars, evars, lvars>>

SpecOperatorCollector == InitOperatorCollector /\ [][NextOperatorCollector]_vars

-----------------------------------------------------------------------------
(* Claims about Batch.Worker *)

IsReleaseType(img) == img.Type \in {TypeOCPRelease, TypeOCPReleaseContent}

\* Mirror.Run was invoked for the image at position q of the input list
Invoked(q) == \E j \in 1..Len(runLog) : runLog[j].image = collectorSchema.AllImages[q]

\* Mirror.Run failed / succeeded for the image at position q of the input list
FailedAt(q) ==
    \E j \in 1..Len(runLog) :
        runLog[j].image = collectorSchema.AllImages[q] /\ runLog[j].result # RunOk

SucceededAt(q) ==
    \E j \in 1..Len(runLog) :
        runLog[j].image = collectorSchema.AllImages[q] /\ runLog[j].result = RunOk

\* C1: a failed Mirror.Run on an OCPRelease or OCPReleaseContent image is the
\* last call Mirror.Run ever receives in that batch, and in the very step of
\* the failure Worker has returned an UnsafeError naming that image.
C1_ReleaseFailFast ==
    \A i \in 1..Len(runLog) :
        (runLog[i].result # RunOk /\ IsReleaseType(runLog[i].image)) =>
            /\ i = Len(runLog)
            /\ wpc = "returned"
            /\ wret.err = "UnsafeError"
            /\ wret.image = runLog[i].image

\* C1 witness: a release image failed while a later image was still waiting
C1_Witness ==
    /\ wpc = "returned"
    /\ wret.err = "UnsafeError"
    /\ wret.image.Origin < Len(collectorSchema.AllImages)
    /\ Len(runLog) = wret.image.Origin

\* C2 as stated: after a failure on a non-release image, Mirror.Run is invoked
\* for every remaining image of the input list.
C2_Original ==
    wpc = "returned" =>
        \A p \in 1..Len(collectorSchema.AllImages) :
            (FailedAt(p) /\ ~IsReleaseType(collectorSchema.AllImages[p])) =>
                \A q \in (p + 1)..Len(collectorSchema.AllImages) : Invoked(q)

\* C2 amended: a failure on a non-release image, of whatever kind, is recorded
\* in errArray and does not end the batch: Mirror.Run is still invoked for
\* every remaining image, except the graph images skipped as synthetic and the
\* images that follow a later release image whose copy failed.
C2_FailSafeContinues ==
    \A p \in 1..Len(collectorSchema.AllImages) :
        (FailedAt(p) /\ ~IsReleaseType(collectorSchema.AllImages[p])) =>
            /\ \E k \in 1..Len(errArray) :
                  /\ errArray[k].image = collectorSchema.AllImages[p]
                  /\ errArray[k].err \in RunErrors
            /\ widx > p
            /\ wpc = "returned" =>
                  \A q \in (p + 1)..Len(collectorSchema.AllImages) :
                      \/ Invoked(q)
                      \/ /\ collectorSchema.AllImages[q].Type = TypeCincinnatiGraph
                         /\ opts.Mode \in {MirrorToDisk, MirrorToMirror}
                      \/ \E r \in (p + 1)..(q - 1) :
                            FailedAt(r) /\ IsReleaseType(collectorSchema.AllImages[r])

\* C2 witness: a cancellation error on a non-release image, and the copy of a
\* later image was still attempted
C2_Witness ==
    /\ wpc = "returned"
    /\ \E i \in 1..Len(runLog) :
          /\ runLog[i].result = "context canceled"
          /\ ~IsReleaseType(runLog[i].image)
          /\ i < Len(runLog)

\* C3: when Worker returns at the end of the input list, it returns SafeError
\* if some Mirror.Run failed and nil if none did, and the copied list it
\* returns is the input list restricted to the images whose copy succeeded or
\* that were never handed to Mirror.Run (synthetic), in input order.
C3_EndOfList ==
    (wpc = "returned" /\ widx > Len(collectorSchema.AllImages)) =>
        LET n == Len(collectorSchema.AllImages)
            anyFailed == \E q \in 1..n : FailedAt(q)
            kept == {q \in 1..n : SucceededAt(q) \/ ~Invoked(q)}
        IN  /\ anyFailed => wret.err = "SafeError"
            /\ ~anyFailed => wret.err = "nil"
            /\ Len(wret.copied.AllImages) = Cardinality(kept)
            /\ \A k \in 1..Len(wret.copied.AllImages) :
                  LET q == wret.copied.AllImages[k].Origin IN
                  /\ q \in kept
                  /\ wret.copied.AllImages[k] = collectorSchema.AllImages[q]
                  /\ k > 1 => wret.copied.AllImages[k - 1].Origin < q

\* C3 witness: the list was walked to its end with a failure, a successful
\* copy and a synthetic image
C3_Witness ==
    /\ wpc = "returned"
    /\ widx > Len(collectorSchema.AllImages)
    /\ wret.err = "SafeError"
    /\ Len(wret.copied.AllImages) = 2
    /\ Len(runLog) = 2

-----------------------------------------------------------------------------
(* Claims about the mirror run *)

CollectorStages ==
    {"ReleaseImageCollector", "OperatorImageCollector", "AdditionalImagesCollector"}

LaterStages ==
    {"StopRegistry", "BuildArchive", "BuildArchiveReturned", "IDMS_ITMSGenerator",
     "CatalogSourceGenerator", "UpdateServiceGenerator"}

\* C4: in both modes the three collectors have returned before Batch.Worker
\* is called, no Mirror.Run happens outside the Worker call, Batch.Worker has
\* returned nil before the archive is built or a cluster resource is
\* generated, and an error of a collector or of the Worker (SafeError as well
\* as UnsafeError) is what Run returns, with no later stage called.
C4_StageOrder ==
    /\ \A i \in 1..Len(xlog) :
          xlog[i].stage = "Worker" =>
              \A c \in CollectorStages :
                  \E j \in 1..(i - 1) : xlog[j] = Stage(c, "nil")
    /\ Len(runLog) > 0 => \E i \in 1..Len(xlog) : xlog[i].stage = "Worker"
    /\ \A i \in 1..Len(xlog) :
          xlog[i].stage \in LaterStages =>
              /\ wpc = "returned"
              /\ \E j \in 1..(i - 1) : xlog[j] = Stage("WorkerReturned", "nil")
    /\ \A i \in 1..Len(xlog) :
          (/\ xlog[i].stage \in CollectorStages \cup {"WorkerReturned"}
           /\ xlog[i].result # "nil") =>
              /\ i = Len(xlog)
              /\ xpc = "done"
              /\ xret = xlog[i].result

\* C4 witness: a DiskToMirror run whose batch ended with a SafeError
C4_Witness ==
    /\ xcfg.Mode = DiskToMirror
    /\ xpc = "done"
    /\ xret = "SafeError"
    /\ Len(runLog) > 1

\* C5: while BuildArchive reads the cache, the registry goroutine has
\* returned from ListenAndServe.
C5_RegistryStoppedBeforeArchive ==
    xpc = "archiving" => reg \in {"failed", "returned", "exited"}

-----------------------------------------------------------------------------
(* Claims about the delete run *)

\* Number of Mirror.Run calls of the batch that returned an error
FailedRuns == Cardinality({j \in 1..Len(runLog) : runLog[j].result # RunOk})

\* C6: a call of DeleteCacheBlobs or DeleteRegistryImages is preceded by a
\* ReadDeleteMetaData that returned nil, so that nothing is deleted when the
\* delete YAML cannot be read.
C6_ReadBeforeMutation ==
    \A i \in 1..Len(xlog) :
        xlog[i].stage \in {"DeleteCacheBlobs", "DeleteRegistryImages"} =>
            \E j \in 1..(i - 1) : xlog[j] = Stage("ReadDeleteMetaData", "nil")

\* C7: when K > 0 of the N deletions handed to the batch fail, all N were
\* attempted, the delete operation returns a SafeError and the error log
\* holds exactly K entries.
C7_DeleteFailSafe ==
    (/\ xpc = "done"
     /\ wpc = "returned"
     /\ opts.Function = DeleteMode
     /\ FailedRuns > 0) =>
        /\ Len(runLog) = Len(collectorSchema.AllImages)
        /\ xret = "SafeError"
        /\ Len(errorLog.entries) = FailedRuns

\* C8: a delete run with the generate flag never calls Batch.Worker, never
\* hands a path to os.RemoveAll, writes no file other than the delete YAML and
\* the configuration snapshot, and has called WriteDeleteMetaData when it
\* returns nil.
C8_GenerateOnlyWrites ==
    dopts.DeleteGenerate =>
        /\ wpc = "idle"
        /\ runLog = <<>>
        /\ removeCalls = {}
        /\ removedFiles = {}
        /\ \A f \in writtenFiles :
              f.name.file \in {"delete/delete-images.yaml",
                               "delete/delete-imageset-config.yaml"}
        /\ (xpc = "done" /\ xret = "nil") =>
              \E i \in 1..Len(xlog) : xlog[i] = Stage("WriteDeleteMetaData", "nil")

\* C8 witness: a finished generate run that collected images and wrote both files
C8_Witness ==
    /\ dopts.DeleteGenerate
    /\ xpc = "done"
    /\ Len(allImages) > 1
    /\ Cardinality(writtenFiles) = 2

\* A reference at the registry of the local cache
TargetsCache(dest) ==
    Len(dest) >= 2 /\ dest[1] = "docker://" /\ dest[2] = "localhost:55000"

\* A blob entry of the form sha256:<hex> with two hex characters at least
IsDigest(b) ==
    /\ Len(b) >= 3
    /\ b[1] = "sha256:"
    /\ \A i \in 2..Len(b) : b[i] # "sha256:"

\* <cache>/docker/registry/v2/blobs/sha256/<first two hex>/<full hex>
DigestFile(b) ==
    <<LocalStorageDisk, "docker/registry/v2/blobs/sha256", <<b[2], b[3]>>, Tail(b)>>

ListedBlobs ==
    UNION {{deleteList[i].RelatedBlobs[k] : k \in 1..Len(deleteList[i].RelatedBlobs)}
           : i \in 1..Len(deleteList)}

-----------------------------------------------------------------------------
(* Claims about the mirrored transport *)

\* C10: for a mirror of a bare origin with two well-formed endpoints [E1, E2]
\* and a request for a repository of that origin, once the inner transport has
\* failed for E1
\* the next request it receives has E2's scheme, E2's host and E2's path in
\* place of the origin's, and a response to it is what RoundTrip returns.
C10_FallbackToSecondEndpoint ==
    (/\ Len(mirrors) = 1
     /\ ~HasHttpPrefix(mirrors[1].OriginUrl)
     /\ Len(mirrors[1].MirrorEndpoints) = 2
     /\ \A k \in 1..2 : ~ParseFails(mirrors[1].MirrorEndpoints[k].Endpoint)
     /\ isApplicableTo(mirrors[1], origURL)
     /\ origURL.Host = <<Head(mirrors[1].OriginUrl)>>
     /\ Contains(origURL.Path, Tail(mirrors[1].OriginUrl))
     /\ Len(sent) >= 2
     /\ ~sent[1].ok) =>
        LET e2 == mirrors[1].MirrorEndpoints[2] IN
        /\ sent[2].url.Scheme = IF e2.Secure THEN "https" ELSE "http"
        /\ sent[2].url.Host = <<Head(e2.Endpoint)>>
        /\ Contains(sent[2].url.Path, Tail(e2.Endpoint))
        /\ (tpc = "done" /\ sent[2].ok) => tout = ResponseTo(sent[2].url)

\* C11: when RoundTrip has gone through every mirror without a response and
\* has handed the request to the inner transport itself, the URL of that last
\* request is the URL the caller passed in.
C11_FallThroughUnrewritten ==
    (tpc = "done" /\ mi > Len(mirrors)) => sent[Len(sent)].url = origURL

\* The host and the path of a mirror's origin
OriginHost(m) == Parse(OriginWithScheme(m)).Host

OriginPath(m) == Parse(OriginWithScheme(m)).Path

\* The request's host contains the origin host or its path the origin path
MatchesOrigin(m, url) ==
    Contains(url.Host, OriginHost(m)) \/ Contains(url.Path, OriginPath(m))

\* C12: a request that matches the origin of no configured mirror, by host or
\* by path, reaches the inner transport once only and with the URL the caller
\* passed in.
C12_OnlyMatchingRewritten ==
    (\A k \in 1..Len(mirrors) : ~MatchesOrigin(mirrors[k], origURL)) =>
        /\ \A i \in 1..Len(sent) : sent[i].url = origURL
        /\ Len(sent) <= 1
        /\ tpc = "done" => Len(sent) = 1

-----------------------------------------------------------------------------
(* Claims about the mirror command *)

\* C13: a mirror command whose destination is docker:// and which has no
\* --from is accepted by Validate and runs in the MirrorToMirror mode.
C13_DockerWithoutFromIsMirrorToMirror ==
    (/\ cli.Dest = <<dockerProtocol, "registry.example.com">>
     /\ cli.From = <<>>
     /\ cli.ConfigPath # <<>>
     /\ cli.SinceString = <<>>
     /\ cpc # "validate") =>
        /\ verr = "nil"
        /\ cpc \in {"setup", "run", "done"} => cmode = MirrorToMirror

\* C14: when Validate returns an error for the command line, the command
\* exits with code 1 and has done nothing to the machine: Complete,
\* setupLocalStorage and Run were not entered, so no directory was removed or
\* created, the port was not probed, no registry was created and no mode set.
C14_RejectedDoesNothing ==
    (cpc # "validate" /\ verr # "nil") =>
        /\ cpc = "rejected"
        /\ cexit = "1"
        /\ cfx = <<>>
        /\ cmode = ""

\* A docker:// destination without --from has been rejected
C14_Witness ==
    /\ cpc = "rejected"
    /\ verr = "from mandatory"
    /\ cli.ConfigPath # <<>>
    /\ cfx = <<>>

\* C15: when Run has returned, on any path, the registry was asked to stop
\* and the registry log file was closed.
C15_StopAndCloseOnEveryPath ==
    (xpc = "done" /\ ~crashed) =>
        /\ \E i \in 1..Len(xlog) : xlog[i].stage = "StopRegistry"
        /\ closeCount >= 1

-----------------------------------------------------------------------------
(* Claims about the extraction of an archive *)

\* A path begins with a prefix
HasPrefix(p, prefix) ==
    Len(p) >= Len(prefix) /\ SubSeq(p, 1, Len(prefix)) = prefix

\* Where the working root and the cache root put an entry of that name
UnderWorkingRoot(name) == Dir(unarch.workingDir) \o name

UnderCacheRoot(name) == unarch.cacheDir \o name

\* The paths that the regular files of a chunk are to be written to: under
\* the cache root for the registry blob prefix, under the working root for the
\* working-directory prefix
ExpectedPaths(chunk) ==
    {UnderCacheRoot(chunk[k].Name) :
        k \in {j \in 1..Len(chunk) : /\ chunk[j].Typeflag = TypeReg
                                     /\ HasPrefix(chunk[j].Name, cacheFilePrefix)}}
    \cup
    {UnderWorkingRoot(chunk[k].Name) :
        k \in {j \in 1..Len(chunk) : /\ chunk[j].Typeflag = TypeReg
                                     /\ HasPrefix(chunk[j].Name, workingDirectory)}}

\* C16: when Unarchive has returned nil, the files it wrote are those of the
\* regular entries of the chunk it read whose path begins with the registry
\* blob prefix, under the cache root, and those whose path begins with the
\* working-directory prefix, under the working root, and no other.
C16_WritesByPrefixOnly ==
    (upc = "done" /\ uret = "nil") =>
        written = ExpectedPaths(unarch.chunks[archiveFile])

\* C17: when Unarchive has returned nil, the regular entries under a
\* recognized prefix of every chunk of the archive, 1..n, have been written.
C17_EveryChunkExtracted ==
    (upc = "done" /\ uret = "nil") =>
        \A c \in 1..Len(unarch.chunks) : ExpectedPaths(unarch.chunks[c]) \subseteq written

\* The content of the last entry of a chunk that Unarchive writes to a path
LastContentFor(chunk, p) ==
    LET hits == {k \in 1..Len(chunk) : /\ chunk[k].Typeflag = TypeReg
                                       /\ Descriptor(unarch, chunk[k].Name) = p}
    IN chunk[CHOOSE k \in hits : \A j \in hits : j <= k].Content

\* C18: when Unarchive has returned nil, every file it wrote holds exactly
\* the content of its entry, whatever was at that path before.
C18_ContentIsEntryContent ==
    (upc = "done" /\ uret = "nil") =>
        \A p \in written :
            ContentAt(files, p) = LastContentFor(unarch.chunks[archiveFile], p)

-----------------------------------------------------------------------------
(* Claims about GatherBlobs *)

\* The digests a manifest refers to: the layers and the config of an image
\* manifest, the children of an index or of a manifest list
RefsOf(store, d) ==
    IF d \notin DOMAIN store THEN {}
    ELSE IF store[d].mime \in {MediaTypeImageManifest, DockerV2Schema2MediaType}
    THEN {store[d].Layers[k] : k \in 1..Len(store[d].Layers)} \cup {store[d].Config}
    ELSE {store[d].Manifests[k].Digest : k \in 1..Len(store[d].Manifests)}

\* The digests reachable from a set of digests
RECURSIVE ReachableFrom(_, _)
ReachableFrom(store, ds) ==
    LET more == ds \cup UNION {RefsOf(store, d) : d \in ds}
    IN IF more = ds THEN ds ELSE ReachableFrom(store, more)

\* The digests of a list
DigestsOf(blobs) == {blobs[k] : k \in 1..Len(blobs)}

\* C19: the list GatherBlobs returns with a nil error has every digest that
\* the top manifest or a manifest reachable from it refers to, each of them
\* once, and no other digest.
C19_ReachableExactlyOnce ==
    (gpc = "done" /\ gout.err = "nil") =>
        /\ DigestsOf(gout.blobs) = ReachableFrom(gstore, RefsOf(gstore, gref))
        /\ Cardinality(DigestsOf(gout.blobs)) = Len(gout.blobs)

\* C20: for an image whose top manifest is an OCI manifest or a Docker
\* schema 2 manifest, the list GatherBlobs returns with a nil error has the
\* digest of the top manifest, of its config and of its layers.
C20_TopManifestDigestIncluded ==
    (/\ gpc = "done"
     /\ gout.err = "nil"
     /\ gstore[gref].mime \in {MediaTypeImageManifest, DockerV2Schema2MediaType}) =>
        {gref} \cup RefsOf(gstore, gref) \subseteq DigestsOf(gout.blobs)

-----------------------------------------------------------------------------
(* Claims about the selection of bundles *)

\* The versions of the catalogs in semantic version order, lowest first
SemverOrder == <<V030, V031, V040alpha, V040, V0100>>

SemverRank(v) == CHOOSE k \in 1..Len(SemverOrder) : SemverOrder[k] = v

\* w >= v in semantic version order
SemverAtLeast(w, v) == SemverRank(w) >= SemverRank(v)

\* The images of the list that getRelatedImages returned
ReturnedImages == {riout.images[k].Image : k \in 1..Len(riout.images)}

\* C21: with one filter entry for package p, a bundle of p at version w is
\* selected, with only MinVersion v, iff w >= v; with only MaxVersion v', iff
\* w <= v'; with both, iff v <= w <= v'; a bundle of another package is not
\* selected.
C21_VersionBoundsInclusive ==
    (/\ ripc = "done" /\ riout.err = "nil"
     /\ Len(packages) = 1
     /\ packages[1].MinVersion # <<>> \/ packages[1].MaxVersion # <<>>) =>
        \A k \in 1..Len(fbc.Bundles) :
            LET b == fbc.Bundles[k]
                pkg == packages[1]
            IN (b.Image \in ReturnedImages) <=>
                   /\ b.Package = pkg.Name
                   /\ pkg.MinVersion # <<>> => SemverAtLeast(b.Version, pkg.MinVersion)
                   /\ pkg.MaxVersion # <<>> => SemverAtLeast(pkg.MaxVersion, b.Version)

\* A bundle at the upper bound is selected, one between the bounds too, and
\* one above the upper bound is not
C21_Witness ==
    /\ ripc = "done" /\ riout.err = "nil"
    /\ Len(packages) = 1
    /\ packages[1].MinVersion = V030 /\ packages[1].MaxVersion = V040
    /\ {"foo-bundle-v0.4.0", "foo-bundle-v0.4.0-alpha"} \subseteq ReturnedImages
    /\ \E k \in 1..Len(fbc.Bundles) : fbc.Bundles[k].Image = "foo-bundle-v0.10.0"
    /\ "foo-bundle-v0.10.0" \notin ReturnedImages

\* The head of a channel: the entry that no entry of the channel replaces
ChannelHeads(channel) ==
    {channel.Entries[k].Name : k \in {j \in 1..Len(channel.Entries) :
        \A i \in 1..Len(channel.Entries) : channel.Entries[i].Replaces # channel.Entries[j].Name}}

\* C22: with one filter entry for a package that has no version bound, the
\* bundles of the package that are selected are the heads of its channels and
\* no other.
C22_HeadOnlyWithoutBounds ==
    (/\ ripc = "done" /\ riout.err = "nil"
     /\ Len(packages) = 1
     /\ packages[1].MinVersion = <<>> /\ packages[1].MaxVersion = <<>>
     /\ packages[1].Channels = <<>>) =>
        \A k \in 1..Len(fbc.Bundles) :
            LET b == fbc.Bundles[k]
            IN (b.Image \in ReturnedImages) <=>
                   /\ b.Package = packages[1].Name
                   /\ \E c \in 1..Len(fbc.Channels) :
                         /\ fbc.Channels[c].Package = b.Package
                         /\ b.Name \in ChannelHeads(fbc.Channels[c])

\* C23: for package foo whose channel stable has the bundles 0.3.0, 0.3.1
\* and 0.4.0, the filter with the channel entry stable, minVersion 0.3.0 and
\* maxVersion 0.3.1, yields the images of the bundles 0.3.0 and 0.3.1 and no
\* image of the bundle 0.4.0.
C23_ChannelBoundsRestrict ==
    (/\ ripc = "done" /\ riout.err = "nil"
     /\ Len(fbc.Bundles) = 3
     /\ fbc.Bundles[1].Image = "foo-bundle-v0.3.0"
     /\ fbc.Bundles[2].Image = "foo-bundle-v0.3.1"
     /\ fbc.Bundles[3].Image = "foo-bundle-v0.4.0"
     /\ Len(packages) = 1
     /\ packages[1].Name = "foo"
     /\ packages[1].Channels =
            <<[Name |-> "stable", MinVersion |-> V030, MaxVersion |-> V031]>>) =>
        ReturnedImages = {"foo-bundle-v0.3.0", "op@sha256:7e1e",
                          "foo-bundle-v0.3.1", "op@sha256:00ae"}

\* The bundle image and the related images of the bundles that
\* isPackageSelected takes, in bundle order; every bundle is taken when no
\* package is given
RECURSIVE ImagesInBundleOrder(_, _)
ImagesInBundleOrder(bundles, pkgs) ==
    IF bundles = <<>> THEN <<>>
    ELSE LET b == Head(bundles)
         IN (IF pkgs = <<>> \/ isPackageSelected(b, fbc.Channels, pkgs).isSelected
             THEN <<[Name |-> b.Package, Image |-> b.Image]>> \o b.RelatedImages
             ELSE <<>>) \o ImagesInBundleOrder(Tail(bundles), pkgs)

\* C24: the list getRelatedImages returns has no two entries with the same
\* image, has the bundle image and the related images of the selected bundles
\* and no other image, and has for each image its first entry in bundle order.
C24_DedupKeepsFirst ==
    (ripc = "done" /\ riout.err = "nil") =>
        LET all == ImagesInBundleOrder(fbc.Bundles, packages)
        IN /\ Cardinality(ReturnedImages) = Len(riout.images)
           /\ ReturnedImages = {all[k].Image : k \in 1..Len(all)}
           /\ \A e \in 1..Len(riout.images) :
                 \E k \in 1..Len(all) :
                    /\ all[k] = riout.images[e]
                    /\ \A j \in 1..(k - 1) : all[j].Image # all[k].Image

\* Two selected bundles have the same operator image under different names
C24_Witness ==
    /\ ripc = "done" /\ riout.err = "nil"
    /\ Len(packages) = 2
    /\ Len(fbc.Bundles) = 2
    /\ fbc.Bundles[1].Image = "foo-bundle-v0.3.0"
    /\ fbc.Bundles[2].Image = "bar-bundle-v0.3.0"
    /\ Len(riout.images) = 3
    /\ riout.images[2] = [Name |-> "operator", Image |-> "op@sha256:7e1e"]

-----------------------------------------------------------------------------
(* Claims about the extraction of a catalog *)

\* Some layer of the catalog has a regular file under the config directory
RegularFileUnderConfig ==
    \E l \in 1..Len(catalog.layers) : \E e \in 1..Len(catalog.layers[l]) :
        /\ catalog.layers[l][e].Typeflag = TypeReg
        /\ HasPrefix(catalog.layers[l][e].Name, catalog.cfgDirName)
        /\ Len(catalog.layers[l][e].Name) > Len(catalog.cfgDirName)

\* C25: for a catalog image that could be read, findFBCConfig returns nil,
\* with something in the config directory, if and only if a layer has a
\* regular file under that directory; when no layer has one it returns the
\* error "no packages found in catalog".
C25_ConfigTreeIffRegularFile ==
    (fpc = "done" /\ fret \notin {"unable to read the image", "UntarLayers: NewReader failed"}) =>
        /\ (fret = "nil") <=> RegularFileUnderConfig
        /\ ~RegularFileUnderConfig => fret = "no packages found in catalog"

-----------------------------------------------------------------------------
(* Claims about the registries.d step *)

\* The claim's disk destinations: file://, dir:// and oci:
OnDisk(url) == url.scheme \in {fileProtocol, dirProtocol, ociProtocol, "oci:"}

\* The host of a registry URL
HostOf(url) == Head(url.rest)

\* The registries of the call that are not on disk
NonDiskRegistries ==
    {rin.registries[k] : k \in {j \in 1..Len(rin.registries) : ~OnDisk(rin.registries[j])}}

\* The names the copy of the user's registries.d may have left
CopiedNames == {f.name : f \in UNION CopiedRegistriesD}

\* C26: after the registries.d step succeeds, the working directory holds for
\* each registry that is not on disk a file <host>.yaml that sets
\* use-sigstore-attachments for that host, also when a file of that name was
\* there before, and no file was made for a file://, dir:// or oci: destination.
C26_SigstoreFileForEachRegistry ==
    (rpc = "done" /\ rret = "nil") =>
        /\ \A url \in NonDiskRegistries :
              \E f \in regdir : /\ f.name = <<HostOf(url), ".yaml">>
                                /\ <<HostOf(url)>> \in f.docker
        /\ \A f \in regdir :
              \/ f.name \in CopiedNames
              \/ \E url \in NonDiskRegistries : f.name = <<HostOf(url), ".yaml">>

-----------------------------------------------------------------------------
(* Claims about the delete command *)

\* ValidateDelete has returned and nothing else has run
Validated == dcpc \in {"validated", "exit in ValidateDelete"}

\* --source is set and carries file://
SourceSetWithFile ==
    /\ dcli.DeleteSource # <<>>
    /\ \E k \in 1..Len(dcli.DeleteSource) : dcli.DeleteSource[k] = fileProtocol

\* The flags the mode needs are set
ModeFlagsSet ==
    IF dcli.DeleteGenerate
    THEN dcli.ConfigPath # <<>> /\ dcli.DeleteID # <<>>
    ELSE dcli.DeleteYaml # <<>> /\ dcli.DeleteDestination # <<>>

\* A destination of more than one character with no docker:// in it
DestinationWithoutDocker ==
    /\ StrLen(dcli.DeleteDestination) > 1
    /\ \A k \in 1..Len(dcli.DeleteDestination) : dcli.DeleteDestination[k] # dockerProtocol

\* The delete yaml that execute mode names is not on disk
DeleteYamlMissing ==
    /\ ~dcli.DeleteGenerate
    /\ dcli.DeleteYaml # <<>>
    /\ ~dfiles.yamlExists

C28_DestinationNeedsDockerPrefix ==
    (Validated /\ dcli.DeleteDestination # <<>>
        /\ ~HasPrefix(dcli.DeleteDestination, <<dockerProtocol>>)) => dcerr # "nil"

\* C29: a --generate run whose --config file is of kind ImageSetConfiguration
\* fails in CompleteDelete: no image is collected and no delete file written.
C29_WrongKindFailsInComplete ==
    (dcli.DeleteGenerate /\ dfiles.configKind = ImageSetConfigurationKind) =>
        /\ dcpc \in {"new", "validated", "exit in ValidateDelete", "exit in CompleteDelete"}
        /\ ~dconfig
        /\ ~dcoll
        /\ ~dwrote

\* CompleteDelete has refused the ImageSetConfiguration
C29_Witness ==
    /\ dcli.DeleteGenerate
    /\ dfiles.configKind = ImageSetConfigurationKind
    /\ dcpc = "exit in CompleteDelete"
    /\ dcerr = "config GVK not recognized"

-----------------------------------------------------------------------------
(* Claims about RunPrepare *)

\* Every call of Mirror.Check found the image, without error
AllChecksPresent ==
    \A k \in 1..Len(pchecks) : pchecks[k].exists /\ ~pchecks[k].err

\* Every image the collector gave was checked, in order
AllImagesChecked ==
    /\ Len(pchecks) = Len(pimgs)
    /\ \A k \in 1..Len(pimgs) : pchecks[k].Destination = pimgs[k]

\* RunPrepare returned after its directories and report file were created
ReturnedAfterSetup ==
    /\ ppc = "done"
    /\ pret \notin {"mkdir failed", "create failed"}

\* C30 as stated: once the directories and the report file are created,
\* RunPrepare returns nil exactly when every image of the collector is in the
\* cache by Mirror.Check, and an error otherwise, after checking all images.
C30_NilIffAllPresent ==
    ReturnedAfterSetup =>
        /\ (pret = "nil") <=> AllChecksPresent
        /\ AllImagesChecked

\* C30 amended: the release collector must succeed and the report must be
\* written as well; then RunPrepare returns nil exactly when every image of
\* the collector is in the cache by Mirror.Check without error, and the
\* error otherwise, and every image was checked before it returns.
C30_NilIffAllPresentWhenCollected ==
    (ReturnedAfterSetup /\ pret \notin {"collector failed", "write failed"}) =>
        /\ (pret = "nil") <=> AllChecksPresent
        /\ pret # "nil" => pret = "all images necessary for mirroring are not available in the cache"
        /\ AllImagesChecked
        /\ preport = pimgs

\* The first image is missing and the second was checked all the same
C30_Witness ==
    /\ ppc = "done"
    /\ Len(pimgs) = 2
    /\ ~pchecks[1].exists
    /\ Len(pchecks) = 2
    /\ pchecks[2].exists
    /\ pret = "all images necessary for mirroring are not available in the cache"

-----------------------------------------------------------------------------
(* Claims about the graph image in Batch.Worker *)

\* The positions of the input list Worker is done with
Processed == {q \in 1..Len(collectorSchema.AllImages) : wpc # "idle" /\ q < widx}

\* The images of a list that count as release images
ReleaseCounted(images) ==
    {k \in 1..Len(images) :
        images[k].Type \in {TypeCincinnatiGraph, TypeOCPRelease, TypeOCPReleaseContent}}

\* C31: in MirrorToDisk mode Worker never calls Mirror.Run for an image of
\* type CincinnatiGraph, appends it to the copied list and counts it as a
\* release image; in DiskToMirror mode the graph image is passed to Mirror.Run
\* like any other image.
C31_GraphImageByMode ==
    /\ opts.Mode = MirrorToDisk =>
          /\ \A j \in 1..Len(runLog) : runLog[j].image.Type # TypeCincinnatiGraph
          /\ \A q \in Processed :
                collectorSchema.AllImages[q].Type = TypeCincinnatiGraph =>
                    \E k \in 1..Len(CopiedImages.AllImages) :
                        CopiedImages.AllImages[k] = collectorSchema.AllImages[q]
          /\ CopiedImages.TotalReleaseImages =
                Cardinality(ReleaseCounted(CopiedImages.AllImages))
    /\ opts.Mode = DiskToMirror =>
          \A q \in Processed : Invoked(q)

\* A graph image was tallied in MirrorToDisk mode next to an image that was
\* copied
C31_Witness ==
    /\ opts.Mode = MirrorToDisk
    /\ wpc = "returned"
    /\ Len(runLog) >= 1
    /\ CopiedImages.TotalReleaseImages >= 1
    /\ \E q \in Processed :
          /\ collectorSchema.AllImages[q].Type = TypeCincinnatiGraph
          /\ ~Invoked(q)

-----------------------------------------------------------------------------
(* Claims about the children of an index in GatherBlobs *)

\* The child descriptors of the top manifest
ChildrenOf(store, d) == {store[d].Manifests[k] : k \in 1..Len(store[d].Manifests)}

\* The top manifest is an OCI index or a Docker manifest list of image
\* manifests that the source has, and no descriptor embeds the manifest bytes
TopWithoutEmbeddedChildren ==
    /\ gref \in DOMAIN gstore
    /\ gstore[gref].mime \in {MediaTypeImageIndex, DockerV2ListMediaType}
    /\ \A c \in ChildrenOf(gstore, gref) :
          /\ ~c.Embedded
          /\ c.Digest \in DOMAIN gstore
          /\ c.MediaType \in {MediaTypeImageManifest, DockerV2Schema2MediaType}

\* C32: for an OCI index or a Docker manifest list whose child descriptors
\* embed no manifest bytes, GatherBlobs (once the image source is open) fetches
\* each child by digest and returns without error each child's digest with
\* the child's config and layer digests.
C32_ChildrenFetchedByDigest ==
    (gpc = "done" /\ gout.err # "image source" /\ TopWithoutEmbeddedChildren) =>
        /\ gout.err = "nil"
        /\ \A c \in ChildrenOf(gstore, gref) :
              {c.Digest} \cup RefsOf(gstore, c.Digest) \subseteq DigestsOf(gout.blobs)

-----------------------------------------------------------------------------
(* Claims about a bundle without version *)

\* The versions a bound may name
KnownVersions == {SemverOrder[k] : k \in 1..Len(SemverOrder)}

\* One filter entry with version bounds that parse, and a bundle of its
\* package that has no olm.package property
BoundsAndBundleWithoutVersion ==
    /\ Len(packages) = 1
    /\ packages[1].MinVersion # <<>> \/ packages[1].MaxVersion # <<>>
    /\ packages[1].MinVersion \in KnownVersions \cup {<<>>}
    /\ packages[1].MaxVersion \in KnownVersions \cup {<<>>}
    /\ \E k \in 1..Len(fbc.Bundles) :
          /\ fbc.Bundles[k].Package = packages[1].Name
          /\ ~fbc.Bundles[k].HasPackageProperty

\* C33: when version bounds are set and a bundle of the filtered package has
\* no olm.package version property, getRelatedImages skips that bundle and
\* still returns, without error, the images of the other selected bundles.
C33_BundleWithoutVersionSkipped ==
    (ripc = "done" /\ BoundsAndBundleWithoutVersion) =>
        /\ riout.err = "nil"
        /\ \A k \in 1..Len(fbc.Bundles) :
              LET b == fbc.Bundles[k]
                  pkg == packages[1]
              IN IF ~b.HasPackageProperty THEN b.Image \notin ReturnedImages
                 ELSE (/\ b.Package = pkg.Name
                       /\ pkg.MinVersion # <<>> => SemverAtLeast(b.Version, pkg.MinVersion)
                       /\ pkg.MaxVersion # <<>> => SemverAtLeast(pkg.MaxVersion, b.Version))
                      => b.Image \in ReturnedImages

-----------------------------------------------------------------------------
(* Claims about the generate branch of RunDelete *)

\* The lists of a sequence of lists, one after the other
RECURSIVE Flatten(_)
Flatten(lists) == IF lists = <<>> THEN <<>> ELSE Head(lists) \o Flatten(Tail(lists))

\* C34: in delete generate mode the list passed to WriteDeleteMetaData has
\* the images of every release folder that IdentifyReleases returned, then the
\* operator images, then the additional images.
C34_EveryReleaseFolderPassed ==
    gdpc = "done" =>
        /\ Len(gdcollected) = Len(gdfolders)
        /\ gdpassed = <<(Flatten(gdcollected) \o gdother.oi) \o gdother.ai>>

-----------------------------------------------------------------------------
(* Claims about the order of the calls of Mirror.Run *)

\* C35: Worker invokes Mirror.Run one image at a time and in the order of the
\* input list: a call starts only after the call before it has returned, so
\* no two copies of a batch overlap.
C35_OneCallAtATime ==
    /\ Cardinality(inflight) <= 1
    /\ \A k \in 1..Len(events) :
          /\ events[k].kind = (IF k % 2 = 1 THEN "call" ELSE "return")
          /\ events[k].kind = "return" => events[k].Origin = events[k - 1].Origin
          /\ (events[k].kind = "call" /\ k > 2) => events[k].Origin > events[k - 2].Origin

\* Three images were copied one after the other
C35_Witness ==
    /\ cwpc = "returned"
    /\ Len(events) = 6
    /\ events[5].Origin = 3
    /\ inflight = {}

-----------------------------------------------------------------------------
(* Claims about the destination and --from of the mirror command *)

\* The protocol is somewhere in the flag value
HasProtocol(s, protocol) == \E k \in 1..Len(s) : s[k] = protocol

\* Validate has accepted the command line
Accepted == cpc \notin {"validate", "rejected"}

-----------------------------------------------------------------------------
(* Claims about the release collector after a failed pull *)

\* C37: when the pull of a release payload into release-images/<payload>
\* failed, a later MirrorToDisk run with the same configuration that comes to
\* that payload (and can make its directory) pulls it again: the failed
\* attempt leaves nothing behind that makes a later run skip the pull.
C37_FailedPullIsRetried ==
    \A i \in 1..Len(rllog) : \A j \in (i + 1)..Len(rllog) :
        (/\ rllog[i].pulled /\ rllog[i].result = "pull error"
         /\ rllog[j].payload = rllog[i].payload
         /\ rllog[j].run > rllog[i].run
         /\ rllog[j].result # "mkdir error") => rllog[j].pulled

-----------------------------------------------------------------------------
(* Claims about the operator collector *)

\* C38: when the configuration lists several operator catalogs,
\* OperatorImageCollector returns the related images selected from every
\* catalog and the index image of every catalog, not only those of the last
\* catalog of the loop.
C38_EveryCatalogReturned ==
    (opc = "returned" /\ oret.err = "nil") =>
        /\ Len(oselected) = Len(ocfg.Operators)
        /\ \A k \in 1..Len(oselected) :
              {e.Image : e \in oselected[k]} \subseteq oret.images
        /\ \A k \in 1..Len(ocfg.Operators) : <<ocfg.Operators[k]>> \in oret.images

-----------------------------------------------------------------------------
(* Claims about the interrupt channel of the embedded registry *)

\* Every goroutine that can take a step eventually takes one; a send on
\* errchan with a receiver waiting completes. This asks more of the registry
\* goroutine than the Go scheduler promises (a serving registry need not
\* return), which leaves fewer behaviours to refute a claim with.
SpecRunFair == SpecRun /\ WF_vars(NextRun)

\* The coordinator stands at `o.localStorageInterruptChannel <- interruptSig`
\* in a process that has not panicked
AtStopStep == xpc = "stopRegistry" /\ ~crashed

\* C39: whenever the coordinator reaches the stop step, its send on the
\* interrupt channel is eventually received and RunMirrorToDisk goes on to
\* BuildArchive, whatever the registry goroutine has done before.
C39_StopRequestEventuallyReceived ==
    AtStopStep ~> (xpc # "stopRegistry" \/ crashed)

\* Batch.Worker has sent at least one copy request, into the cache in a mirror
\* to disk run and out of it in a disk to mirror run
CopyRequested == Len(runLog) >= 1

\* The goroutine of startLocalRegistry has entered ListenAndServe and bound the
\* port: the registry listens, or did until it returned
HasListened == reg \notin {"created", "spawned"}

\* C40: in both runs, when the batch copier sends its first request to the
\* cache registry the registry has already started to listen, on every
\* interleaving of the coordinator with the registry goroutine.
C40_ListensBeforeFirstCopy == CopyRequested => HasListened

====
